---- MODULE Spec2Model ----
(***************************************************************************)
(* Model of svm, the SDK version manager: version resolution, the install  *)
(* orchestration with its download fallback, activation through the        *)
(* `current` indirection, removal, and the persisted configuration.        *)
(*                                                                         *)
(* Strings are sequences of one-character strings, so that prefix tests,   *)
(* splitting on "." and integer parsing are computed as the Go code        *)
(* computes them.                                                          *)
(***************************************************************************)
EXTENDS Integers, Sequences, FiniteSets, TLC

----------------------------------------------------------------------------
(* strings package primitives used by the code *)

HasPrefix(s, p) == Len(p) <= Len(s) /\ SubSeq(s, 1, Len(p)) = p

HasSuffix(s, p) == Len(p) <= Len(s) /\ SubSeq(s, Len(s) - Len(p) + 1, Len(s)) = p

TrimPrefix(s, p) == IF HasPrefix(s, p) THEN SubSeq(s, Len(p) + 1, Len(s)) ELSE s

Contains(s, sub) ==
    \E i \in 1..(Len(s) - Len(sub) + 1) : SubSeq(s, i, i + Len(sub) - 1) = sub

UpperChars == <<"A", "B", "C", "D", "E", "H", "L", "N", "O", "P", "R", "T", "V">>
LowerChars == <<"a", "b", "c", "d", "e", "h", "l", "n", "o", "p", "r", "t", "v">>

ToLowerChar(c) ==
    IF \E i \in 1..Len(UpperChars) : UpperChars[i] = c
    THEN LowerChars[CHOOSE i \in 1..Len(UpperChars) : UpperChars[i] = c]
    ELSE c

ToLower(s) == [i \in 1..Len(s) |-> ToLowerChar(s[i])]

(* strings.Split(s, ".") *)
RECURSIVE SplitDot(_)
SplitDot(s) ==
    IF \A i \in 1..Len(s) : s[i] # "."
    THEN <<s>>
    ELSE LET k == CHOOSE i \in 1..Len(s) :
                     s[i] = "." /\ \A j \in 1..(i - 1) : s[j] # "."
         IN  <<SubSeq(s, 1, k - 1)>> \o SplitDot(SubSeq(s, k + 1, Len(s)))

Digits == <<"0", "1", "2", "3", "4", "5", "6", "7", "8", "9">>

IsDigit(c) == \E i \in 1..10 : Digits[i] = c

DigitVal(c) == (CHOOSE i \in 1..10 : Digits[i] = c) - 1

RECURSIVE DigitsVal(_)
DigitsVal(s) ==
    IF Len(s) = 0 THEN 0
    ELSE 10 * DigitsVal(SubSeq(s, 1, Len(s) - 1)) + DigitVal(s[Len(s)])

(* strconv.Atoi: an optional sign followed by at least one decimal digit *)
Atoi(s) ==
    LET signed == Len(s) > 0 /\ s[1] \in {"+", "-"}
        body   == IF signed THEN SubSeq(s, 2, Len(s)) ELSE s
        ok     == Len(body) > 0 /\ \A i \in 1..Len(body) : IsDigit(body[i])
    IN  [err |-> ~ok,
         num |-> IF ~ok THEN 0
                 ELSE IF signed /\ s[1] = "-" THEN 0 - DigitsVal(body)
                 ELSE DigitsVal(body)]

----------------------------------------------------------------------------
(* version parsing, comparison and sorting *)

StripV(version) == IF HasPrefix(version, <<"v">>) THEN SubSeq(version, 2, Len(version)) ELSE version

(* the lenient parser used for sorting: an unparsable part counts as 0 *)
parseVersion(version) ==
    LET parts == SplitDot(StripV(version))
    IN  [i \in 1..Len(parts) |-> Atoi(parts[i]).num]

(* the strict parser used by the resolver: any unparsable part is an error *)
ParseVersion(version) ==
    LET parts == SplitDot(StripV(version))
        bad   == \E i \in 1..Len(parts) : Atoi(parts[i]).err
    IN  [err   |-> bad,
         parts |-> IF bad THEN <<>> ELSE [i \in 1..Len(parts) |-> Atoi(parts[i]).num]]

MinLen(a, b) == IF Len(b) < Len(a) THEN Len(b) ELSE Len(a)

(* a comparison that stops at the end of the shorter version *)
CompareVersions_IgnoresLength(v1, v2) ==
    LET minLen == MinLen(v1, v2)
        diff   == {i \in 1..minLen : v1[i] # v2[i]}
    IN  IF diff # {}
        THEN LET k == CHOOSE i \in diff : \A j \in diff : i <= j
             IN  IF v1[k] < v2[k] THEN -1 ELSE 1
        ELSE 0

CompareVersions(v1, v2) ==
    LET minLen == MinLen(v1, v2)
        diff   == {i \in 1..minLen : v1[i] # v2[i]}
    IN  IF diff # {}
        THEN LET k == CHOOSE i \in diff : \A j \in diff : i <= j
             IN  IF v1[k] < v2[k] THEN -1 ELSE 1
        ELSE IF Len(v1) < Len(v2) THEN -1
        ELSE IF Len(v1) > Len(v2) THEN 1
        ELSE 0

(* the characters of version strings in the order of their byte values *)
ByteOrder ==
    <<"+", "-", ".", "0", "1", "2", "3", "4", "5", "6", "7", "8", "9",
      "a", "b", "c", "e", "h", "l", "p", "r", "t", "v", "x">>

ByteOf(c) == CHOOSE i \in 1..Len(ByteOrder) : ByteOrder[i] = c

(* v1 > v2 on Go strings: byte by byte, a proper prefix being smaller *)
StringGreater(v1, v2) ==
    LET minLen == MinLen(v1, v2)
        diff   == {i \in 1..minLen : v1[i] # v2[i]}
    IN  IF diff # {}
        THEN LET k == CHOOSE i \in diff : \A j \in diff : i <= j
             IN  ByteOf(v1[k]) > ByteOf(v2[k])
        ELSE Len(v1) > Len(v2)

(* CompareVersionsStr, lines 113-121: the fallback on the raw strings *)
CompareRaw(v1, v2) == IF v1 = v2 THEN 0 ELSE IF StringGreater(v1, v2) THEN 1 ELSE -1

(* CompareVersionsStr, with the outcomes p1, p2 of ParseVersion *)
CompareParsed(v1, v2, p1, p2) ==
    IF p1.err \/ p2.err THEN CompareRaw(v1, v2) ELSE CompareVersions(p1.parts, p2.parts)

CompareVersionsStr(v1, v2) == CompareParsed(v1, v2, ParseVersion(v1), ParseVersion(v2))

(* the sort predicate: v1 sorts before v2 *)
compareVersions(v1, v2) == CompareVersions(parseVersion(v1), parseVersion(v2)) = 1

(* sort.Slice on a short slice is an insertion sort: element i sinks while  *)
(* it sorts before its left neighbour                                       *)
RECURSIVE Sink(_, _)
Sink(list, j) ==
    IF j > 1 /\ compareVersions(list[j], list[j - 1])
    THEN Sink([list EXCEPT ![j] = list[j - 1], ![j - 1] = list[j]], j - 1)
    ELSE list

RECURSIVE InsertionSort(_, _)
InsertionSort(list, i) ==
    IF i > Len(list) THEN list ELSE InsertionSort(Sink(list, i), i + 1)

SortVersionsDesc(versions) == InsertionSort(versions, 2)

----------------------------------------------------------------------------
(* the resolver *)

Normalize(v, stripPrefix) ==
    IF stripPrefix # <<>> /\ HasPrefix(v, stripPrefix) THEN TrimPrefix(v, stripPrefix) ELSE v

IsStable(v) ==
    LET normalizedV == ToLower(v)
    IN  /\ ~Contains(normalizedV, <<"r", "c">>)
        /\ ~Contains(normalizedV, <<"a", "l", "p", "h", "a">>)
        /\ ~Contains(normalizedV, <<"b", "e", "t", "a">>)

(* the index at which a range loop over a list first finds its condition   *)
(* true, 0 when it never does; hits[i] is the condition on the i-th element *)
FirstIndex(hits) ==
    IF \E i \in 1..Len(hits) : hits[i]
    THEN CHOOSE i \in 1..Len(hits) : hits[i] /\ \A j \in 1..(i - 1) : ~hits[j]
    ELSE 0

(* a wildcard that answers nothing when every entry is a pre-release *)
FirstStableOrFirst_StableOnly(availableVersions) ==
    LET k == FirstIndex([i \in 1..Len(availableVersions) |-> IsStable(availableVersions[i])])
    IN  IF k # 0 THEN availableVersions[k] ELSE <<>>

(* a wildcard that takes the first entry, pre-release or not *)
FirstStableOrFirst_FirstOverall(availableVersions) == availableVersions[1]

(* lines 147-157 and 202-212: the first stable entry, else the first *)
FirstStableOrFirst(availableVersions) ==
    LET k == FirstIndex([i \in 1..Len(availableVersions) |-> IsStable(availableVersions[i])])
    IN  IF k # 0 THEN availableVersions[k] ELSE availableVersions[1]

(* the closest-version scan: acc is <<closestVersion, closestVersionParts>> *)
RECURSIVE ClosestScan(_, _, _, _, _)
ClosestScan(availableVersions, i, stripPrefix, parsedRequestVersion, acc) ==
    IF i > Len(availableVersions) THEN acc
    ELSE LET v      == availableVersions[i]
             vp     == ParseVersion(StripV(Normalize(v, stripPrefix)))
             next   == IF vp.err THEN acc
                       ELSE IF acc[1] = <<>> THEN <<v, vp.parts>>
                       ELSE IF /\ CompareVersions(vp.parts, parsedRequestVersion) <= 0
                               /\ CompareVersions(vp.parts, acc[2]) > 0
                            THEN <<v, vp.parts>>
                       ELSE acc
         IN  ClosestScan(availableVersions, i + 1, stripPrefix, parsedRequestVersion, next)

(* a resolver whose short-token rule takes one-character requests only *)
FindBestMatchingVersion_OneCharShort(requestedVersion, availableVersions, stripPrefix) ==
    LET req     == Normalize(requestedVersion, stripPrefix)
        Exact(v)  == Normalize(v, stripPrefix) = req
        Short(v)  == \/ HasPrefix(Normalize(v, stripPrefix), req \o <<".">>)
                     \/ Normalize(v, stripPrefix) = req
        noV     == TrimPrefix(req, <<"v">>)
        NoVEq(v)  == TrimPrefix(Normalize(v, stripPrefix), <<"v">>) = noV
        parsed  == ParseVersion(StripV(req))
        closest == ClosestScan(availableVersions, 1, stripPrefix, parsed.parts, <<<<>>, <<>>>>)
        Each(P(_)) == [i \in 1..Len(availableVersions) |-> P(availableVersions[i])]
        exactAt == FirstIndex(Each(Exact))
        shortAt == FirstIndex(Each(Short))
        noVAt   == FirstIndex(Each(NoVEq))
    IN  IF Len(availableVersions) = 0 THEN [version |-> <<>>, found |-> FALSE]
        ELSE IF exactAt # 0
            THEN [version |-> availableVersions[exactAt], found |-> TRUE]
        ELSE IF Len(req) <= 1 /\ shortAt # 0
            THEN [version |-> availableVersions[shortAt], found |-> TRUE]
        ELSE IF HasPrefix(req, <<"v">>) /\ noVAt # 0
            THEN [version |-> availableVersions[noVAt], found |-> TRUE]
        ELSE IF parsed.err
            THEN [version |-> FirstStableOrFirst(availableVersions), found |-> TRUE]
        ELSE IF closest[1] # <<>>
            THEN [version |-> closest[1], found |-> TRUE]
        ELSE [version |-> FirstStableOrFirst(availableVersions), found |-> TRUE]

(* utils.FindBestMatchingVersion *)
FindBestMatchingVersion(requestedVersion, availableVersions, stripPrefix) ==
    LET req     == Normalize(requestedVersion, stripPrefix)
        Exact(v)  == Normalize(v, stripPrefix) = req
        Short(v)  == \/ HasPrefix(Normalize(v, stripPrefix), req \o <<".">>)
                     \/ Normalize(v, stripPrefix) = req
        noV     == TrimPrefix(req, <<"v">>)
        NoVEq(v)  == TrimPrefix(Normalize(v, stripPrefix), <<"v">>) = noV
        parsed  == ParseVersion(StripV(req))
        closest == ClosestScan(availableVersions, 1, stripPrefix, parsed.parts, <<<<>>, <<>>>>)
        Each(P(_)) == [i \in 1..Len(availableVersions) |-> P(availableVersions[i])]
        exactAt == FirstIndex(Each(Exact))
        shortAt == FirstIndex(Each(Short))
        noVAt   == FirstIndex(Each(NoVEq))
    IN  IF Len(availableVersions) = 0 THEN [version |-> <<>>, found |-> FALSE]
        ELSE IF exactAt # 0
            THEN [version |-> availableVersions[exactAt], found |-> TRUE]
        ELSE IF Len(req) <= 2 /\ shortAt # 0
            THEN [version |-> availableVersions[shortAt], found |-> TRUE]
        ELSE IF HasPrefix(req, <<"v">>) /\ noVAt # 0
            THEN [version |-> availableVersions[noVAt], found |-> TRUE]
        ELSE IF parsed.err
            THEN [version |-> FirstStableOrFirst(availableVersions), found |-> TRUE]
        ELSE IF closest[1] # <<>>
            THEN [version |-> closest[1], found |-> TRUE]
        ELSE [version |-> FirstStableOrFirst(availableVersions), found |-> TRUE]

(* a fallback that picks the failed entry itself again *)
GetNextVersionFromList_SameEntry(currentVersion, availableVersions) ==
    LET hits == {i \in 1..Len(availableVersions) : availableVersions[i] = currentVersion}
    IN  IF hits # {}
        THEN [version |-> availableVersions[CHOOSE i \in hits : \A j \in hits : i <= j],
              found |-> TRUE]
        ELSE [version |-> <<>>, found |-> FALSE]

(* utils.GetNextVersionFromList *)
GetNextVersionFromList(currentVersion, availableVersions) ==
    LET hits == {i \in 1..Len(availableVersions) :
                    availableVersions[i] = currentVersion /\ i + 1 <= Len(availableVersions)}
    IN  IF hits # {}
        THEN [version |-> availableVersions[(CHOOSE i \in hits : \A j \in hits : i <= j) + 1],
              found |-> TRUE]
        ELSE [version |-> <<>>, found |-> FALSE]

----------------------------------------------------------------------------
(* toolchains, platforms and the provider facts of each toolchain *)

SDKNames == {"node", "java", "go"}

(* with the multi-component toolchain, which installs through BaseSDK too *)
Toolchains == SDKNames \cup {"python", "dotnet"}

Platforms == {"unix", "windows"}

(* number of entries of the upstream catalog *)
CatalogLen == 2

NodeReleases == << <<"v", "1", "8", ".", "2">>, <<"v", "1", "6", ".", "1">>,
                   <<"v", "1", "4", ".", "0">>, <<"v", "1", "2", ".", "3">>,
                   <<"v", "1", "0", ".", "4">> >>

JavaReleases == << <<"2", "1", ".", "1">>, <<"1", "7", ".", "0">>,
                   <<"1", "1", ".", "2">>, <<"8", ".", "3">>, <<"7", ".", "5">> >>

GoReleases == << <<"1", ".", "2", "1">>, <<"1", ".", "2", "0">>,
                 <<"1", ".", "1", "9">>, <<"1", ".", "1", "8">>, <<"1", ".", "1", "7">> >>

PythonReleases == << <<"3", ".", "1", "2">>, <<"3", ".", "1", "1">>,
                     <<"3", ".", "1", "0">>, <<"3", ".", "9">>, <<"3", ".", "8">> >>

DotNetReleases == << <<"9", ".", "0", ".", "1">>, <<"8", ".", "0", ".", "4">>,
                     <<"7", ".", "0", ".", "3">>, <<"6", ".", "0", ".", "2">>, <<"5", ".", "0", ".", "0">> >>

Take(list, n) == SubSeq(list, 1, IF n < Len(list) THEN n ELSE Len(list))

(* what upstream publishes for a toolchain, newest first *)
Releases(name) ==
    IF name = "node" THEN NodeReleases
    ELSE IF name = "java" THEN JavaReleases
    ELSE IF name = "dotnet" THEN DotNetReleases
    ELSE IF name = "python" THEN PythonReleases
    ELSE GoReleases

(* Provider.GetVersionList *)
GetVersionList(name) == Take(Releases(name), CatalogLen)

Versions(name) == {GetVersionList(name)[i] : i \in 1..Len(GetVersionList(name))}

(* what a user types after install / use / remove *)
Requests(name) ==
    IF name = "node"
    THEN {<<"1", "8", ".", "2">>, <<"1", "6">>, <<"v", "1", "6", ".", "1">>}
    ELSE IF name = "java"
    THEN {<<"2", "1", ".", "1">>, <<"1", "7">>, <<"1", "7", ".", "0">>}
    ELSE IF name = "dotnet"
    THEN {<<"9", ".", "0", ".", "1">>, <<"8">>, <<"8", ".", "0", ".", "4">>}
    ELSE IF name = "python"
    THEN {<<"3", ".", "1", "2">>, <<"3">>, <<"3", ".", "1", "1">>}
    ELSE {<<"1", ".", "2", "1">>, <<"1">>, <<"1", ".", "2", "0">>}

(* the Java and .NET providers look the URL up in release metadata and may  *)
(* return ""                                                                *)
MayReturnEmptyURL(name) == name \in {"java", "dotnet"}

(* VersionPrefixHandlers: Node.js versions carry a "v", the others nothing *)
HandlersAdd(name, v) ==
    IF name = "node" THEN (IF HasPrefix(v, <<"v">>) THEN v ELSE <<"v">> \o v) ELSE v

HandlersRemove(name, v) == IF name = "node" THEN TrimPrefix(v, <<"v">>) ELSE v

HandlersHas(name, v) == IF name = "node" THEN HasPrefix(v, <<"v">>) ELSE TRUE

KeyHOME == <<"_", "H", "O", "M", "E">>
KeyPATH == <<"P", "A", "T", "H">>
KeyEXCLUDE == <<"E", "X", "C", "L", "U", "D", "E", "_", "K", "E", "Y", "W", "O", "R", "D", "S">>
KeyNODEHOME == <<"N", "O", "D", "E">> \o KeyHOME
KeyJAVAHOME == <<"J", "A", "V", "A">> \o KeyHOME
KeyGOROOT == <<"G", "O", "R", "O", "O", "T">>
KeyPYTHONHOME == <<"P", "Y", "T", "H", "O", "N", "H", "O", "M", "E">>

(* Provider.ConfigureEnv: the variables are named after the fixed `current` *)
(* directory; Java and Go first require current and current/bin to exist,   *)
(* Python requires current to exist                                         *)
ConfigureEnv(name, currentContent) ==
    IF name = "node"
    THEN [err |-> "",
          envVars |-> << [Key |-> KeyNODEHOME, Value |-> "current"],
                         [Key |-> KeyEXCLUDE, Value |-> "node"] >>]
    ELSE IF name = "python"
    THEN (IF currentContent = "none"
          THEN [err |-> "ConfigureEnv", envVars |-> <<>>]
          ELSE [err |-> "",
                envVars |-> << [Key |-> KeyPYTHONHOME, Value |-> "current"],
                               [Key |-> KeyPATH, Value |-> "current"],
                               [Key |-> KeyEXCLUDE, Value |-> "python"] >>])
    ELSE IF currentContent # "full"
    THEN [err |-> "ConfigureEnv", envVars |-> <<>>]
    ELSE IF name = "java"
    THEN [err |-> "",
          envVars |-> << [Key |-> KeyJAVAHOME, Value |-> "current"],
                         [Key |-> KeyPATH, Value |-> "current/bin"],
                         [Key |-> KeyEXCLUDE, Value |-> "java,jdk,openjdk"] >>]
    ELSE [err |-> "",
          envVars |-> << [Key |-> KeyGOROOT, Value |-> "current"],
                         [Key |-> KeyPATH, Value |-> "current/bin"],
                         [Key |-> KeyEXCLUDE, Value |-> "golang,go"] >>]

----------------------------------------------------------------------------
(* the persisted configuration and the file system                         *)
(*                                                                         *)
(* A state s is a record:                                                  *)
(*   dirs     version -> "none" | "empty" | "full": <installRoot>/<sdk>/<v> *)
(*   cur      the entry at <installRoot>/<sdk>/current                     *)
(*   legacy   Config.CurrentVersions[sdk]                                  *)
(*   current  Config.SDKs[sdk].CurrentVersion                              *)
(*   envVars  Config.SDKs[sdk].EnvVars                                     *)
(*   vc       Config.SDKs[sdk].VersionCache                                *)
(*   files    the archives present in <installRoot>/cache/<sdk>            *)
(*   comp     component -> version -> the directory                        *)
(*            <installRoot>/dotnet/<component>/<v> of the layout            *)
(*            DotNetSDKProvider.PostInstall builds: its content, "none" or  *)
(*            "full", and the text of its .version file                     *)
(*   ccur     component -> the entry at                                    *)
(*            <installRoot>/dotnet/<component>/current                      *)
(*   components  Config.SDKs[sdk].Components                               *)
(* and, not persisted: componentType, the provider's field, and log, the    *)
(* steps the running command has passed                                    *)

NoPath == <<>>
NoVersion == <<>>

InstallPath(v) == <<"install", v>>
CachePath(v) == <<"cache", v>>

NoInfo == [exists |-> FALSE, InstallDir |-> NoPath, CacheFilePath |-> NoPath]

NoEntry == [kind |-> "none", target |-> NoVersion, content |-> "none"]

(* the sub-commands of svm dotnet: sdk, runtime (and asp-core, desktop) *)
ComponentTypes == {"sdk", "runtime"}

NoComponentDir == [content |-> "none", mark |-> NoVersion]

NoComponentEntry == [kind |-> "none", target |-> NoVersion, content |-> "none", mark |-> NoVersion]

(* a step of the running command, noted in passing *)
Logged(s, step) == [s EXCEPT !.log = Append(@, step)]

(* Config.GetVersionInfo *)
GetVersionInfo(s, version) == IF version \in DOMAIN s.vc THEN s.vc[version] ELSE NoInfo

(* Config.SetVersionInfo *)
SetVersionInfo(s, version, info) ==
    [s EXCEPT !.vc = [v \in DOMAIN s.vc |-> IF v = version THEN [info EXCEPT !.exists = TRUE] ELSE s.vc[v]],
              !.legacy = IF s.current # NoVersion THEN s.current ELSE s.legacy]

(* Config.RemoveVersionInfo *)
RemoveVersionInfo(s, version) ==
    IF ~GetVersionInfo(s, version).exists THEN s
    ELSE LET dropped == [s EXCEPT !.vc[version] = NoInfo]
         IN  IF s.current = version
             THEN [dropped EXCEPT !.current = NoVersion, !.legacy = NoVersion]
             ELSE dropped

(* Config.GetCurrentVersion *)
GetCurrentVersion(s) == IF s.current # NoVersion THEN s.current ELSE s.legacy

(* Config.SetCurrentVersion *)
SetCurrentVersion(s, version) == [s EXCEPT !.legacy = version, !.current = version]

(* Config.SetSDKEnvVars *)
SetSDKEnvVars(s, envVars) == [s EXCEPT !.envVars = envVars]

(* os.Stat of a version directory succeeds *)
DirExists(s, version) == version \in DOMAIN s.dirs /\ s.dirs[version] # "none"

(* what os.Stat, which follows links, sees at `current` *)
CurrentContent(s) ==
    IF s.cur.kind = "none" THEN "none"
    ELSE IF s.cur.kind = "copy" THEN s.cur.content
    ELSE IF s.cur.target \in DOMAIN s.dirs THEN s.dirs[s.cur.target] ELSE "none"

StatCurrent(s) == CurrentContent(s) # "none"

(* a link or junction whose target directory is gone *)
Dangling(s) == s.cur.kind \in {"symlink", "junction"} /\ ~StatCurrent(s)

----------------------------------------------------------------------------
(* the install orchestration *)

(* FindBestVersion, lines 501-505: the prefix handed to the resolver is the *)
(* first character of the normalised request whenever handlers.Has accepts  *)
(* it; requestedVersion[:1] of an empty string is outside the model, whose  *)
(* requests are not empty                                                   *)
StripPrefixOf(name, requestedVersion) ==
    IF HandlersHas(name, requestedVersion) THEN SubSeq(requestedVersion, 1, 1) ELSE <<>>

(* BaseSDK.FindBestVersion: sorts the catalog in place, then resolves *)
FindBestVersion(name, requestedVersion, availableVersions) ==
    LET req         == HandlersAdd(name, requestedVersion)
        sorted      == SortVersionsDesc(availableVersions)
        stripPrefix == StripPrefixOf(name, req)
        best        == FindBestMatchingVersion(req, sorted, stripPrefix)
    IN  [version |-> best.version, found |-> best.found, sorted |-> sorted]

(* every string the commands hand to the resolver *)
Asked(name) ==
    LET typed == Requests(name) \cup Versions(name)
                 \cup {HandlersRemove(name, v) : v \in Versions(name)}
    IN  typed \cup {HandlersAdd(name, r) : r \in typed}

(* FindBestVersion against the upstream catalog (BaseSDK.List), tabulated *)
Resolution ==
    [name \in Toolchains |->
        [r \in Asked(name) |-> FindBestVersion(name, r, GetVersionList(name))]]

PrepareInstallDir_DropsCachePath(s, version) ==
    LET versionInfo == GetVersionInfo(s, version)
    IN  IF versionInfo.exists /\ versionInfo.InstallDir # NoPath /\ DirExists(s, version)
        THEN s
        ELSE SetVersionInfo([s EXCEPT !.dirs[version] = "empty"], version,
                            [NoInfo EXCEPT !.InstallDir = InstallPath(version)])

(* BaseSDK.PrepareInstallDir *)
PrepareInstallDir(s, version) ==
    LET versionInfo == GetVersionInfo(s, version)
    IN  IF versionInfo.exists /\ versionInfo.InstallDir # NoPath /\ DirExists(s, version)
        THEN s
        ELSE SetVersionInfo([s EXCEPT !.dirs[version] = "empty"], version,
                            [versionInfo EXCEPT !.InstallDir = InstallPath(version)])

GetCachedFile(s, version) ==
    LET versionInfo == GetVersionInfo(s, version)
    IN  /\ versionInfo.exists
        /\ versionInfo.CacheFilePath # NoPath
        /\ versionInfo.CacheFilePath \in s.files

SaveCacheFile(s, version, cacheFilePath) ==
    SetVersionInfo(s, version, [GetVersionInfo(s, version) EXCEPT !.CacheFilePath = cacheFilePath])

(* a download that stores the file but does not register it *)
DownloadOrUseCachedFile_Unregistered(s, version, downloadOK) ==
    IF GetCachedFile(s, version) THEN [s |-> s, err |-> ""]
    ELSE IF ~downloadOK THEN [s |-> s, err |-> "download"]
    ELSE [s |-> [s EXCEPT !.files = @ \cup {CachePath(version)}], err |-> ""]

(* DownloadOrUseCachedFile on a cache miss; downloadOK is the network's answer *)
DownloadOrUseCachedFile(s, version, downloadOK) ==
    IF GetCachedFile(s, version) THEN [s |-> s, err |-> ""]
    ELSE IF ~downloadOK THEN [s |-> s, err |-> "download"]
    ELSE [s   |-> SaveCacheFile([s EXCEPT !.files = @ \cup {CachePath(version)}],
                                version, CachePath(version)),
          err |-> ""]

Providers == {"node", "java", "go", "python", "dotnet"}

OSNames == {"windows", "linux", "darwin"}

ArchNames == {"x64", "x86", "arm64"}

ExtZip == <<".", "z", "i", "p">>
ExtTarGz == <<".", "t", "a", "r", ".", "g", "z">>
ExtTgz == <<".", "t", "g", "z">>
ExtPkg == <<".", "p", "k", "g">>

(* the extensions of the files GetDownloadURL may name: fixed by the code   *)
(* for node, go and python; for java the binary_link the Adoptium API       *)
(* answers with; for dotnet a file of the release with a supported suffix   *)
DownloadExtensions(name, osName) ==
    IF name = "node" THEN {ExtZip}
    ELSE IF name = "go" THEN (IF osName = "windows" THEN {ExtZip} ELSE {ExtTarGz})
    ELSE IF name = "python"
    THEN (IF osName = "windows" THEN {ExtZip}
          ELSE IF osName = "darwin" THEN {ExtPkg} ELSE {ExtTgz})
    ELSE IF name = "java" THEN {ExtZip, ExtTarGz}
    ELSE IF osName = "windows" THEN {ExtZip}
    ELSE IF osName = "darwin" THEN {ExtTarGz, ExtPkg} ELSE {ExtTarGz}

(* the architecture as the URL spells it *)
ArchText(arch) ==
    IF arch = "x64" THEN <<"x", "6", "4">>
    ELSE IF arch = "x86" THEN <<"x", "8", "6">>
    ELSE <<"a", "r", "m", "6", "4">>

(* filepath.Base of the URL *)
DownloadFileName(arch, ext) == <<"s", "d", "k", "-">> \o ArchText(arch) \o ext

(* Provider.GetArchiveType *)
GetArchiveType(name) == IF name \in {"python", "dotnet"} THEN "auto" ELSE "zip"

(* Provider.GetArchiveTypeForFile *)
GetArchiveTypeForFile(name, fileName) ==
    IF HasSuffix(fileName, ExtZip) THEN "zip"
    ELSE IF HasSuffix(fileName, ExtTarGz) THEN "tar.gz"
    ELSE IF name = "dotnet" THEN (IF HasSuffix(fileName, ExtPkg) THEN "pkg" ELSE "unknown")
    ELSE IF HasSuffix(fileName, ExtTgz) THEN "tar.gz"
    ELSE IF name \in {"java", "python"}
            /\ (HasSuffix(fileName, <<".", "e", "x", "e">>) \/ HasSuffix(fileName, <<".", "m", "s", "i">>))
    THEN "none"
    ELSE "zip"

(* Install, lines 224-229: the declared kind, auto resolved by the file *)
ArchiveTypeOf(name, fileName) ==
    IF GetArchiveType(name) = "auto" THEN GetArchiveTypeForFile(name, fileName)
    ELSE GetArchiveType(name)

(* Install, lines 233-248: the primitive the kind dispatches to *)
ExtractPrimitive(archiveType) ==
    IF archiveType = "zip" THEN "ExtractZip"
    ELSE IF archiveType \in {"tar.gz", "tgz"} THEN "ExtractTarGzFile"
    ELSE IF archiveType = "none" THEN "CopyFile"
    ELSE "unsupported"

(* the format of a file, by its name *)
FormatOfFile(fileName) ==
    IF HasSuffix(fileName, ExtZip) THEN "zip"
    ELSE IF HasSuffix(fileName, ExtTarGz) \/ HasSuffix(fileName, ExtTgz) THEN "tar.gz"
    ELSE IF HasSuffix(fileName, ExtPkg) THEN "pkg"
    ELSE "other"

(* the format a primitive reads *)
FormatRead(primitive) ==
    IF primitive = "ExtractZip" THEN "zip"
    ELSE IF primitive = "ExtractTarGzFile" THEN "tar.gz"
    ELSE "none"

(* runtime.GOOS of a machine of the model *)
OSName(os) == IF os = "windows" THEN "windows" ELSE "linux"

(* the file GetDownloadURL may name on this system can be extracted by the  *)
(* primitive Install dispatches to                                          *)
CanExtract(name, os) ==
    \E ext \in DownloadExtensions(name, OSName(os)) :
        LET primitive == ExtractPrimitive(ArchiveTypeOf(name, DownloadFileName("x64", ext)))
        IN  primitive = "CopyFile" \/ FormatRead(primitive) = FormatOfFile(DownloadFileName("x64", ext))

(* what goes wrong at extraction: what the outside world makes go wrong, or *)
(* a primitive that cannot read the file                                    *)
ExtractFault(name, s, fault) ==
    IF fault \in {"unsupported", "extract"} THEN fault
    ELSE IF ~CanExtract(name, s.os) THEN "extract"
    ELSE fault

(* Install, lines 222-252: the archive kind, then the extraction; fault is  *)
(* what goes wrong: "extract" a corrupt archive, "unsupported" a file whose  *)
(* kind GetArchiveTypeForFile does not map to zip, tar.gz or none           *)
ExtractArchive(s, version, fault) ==
    IF fault = "unsupported" THEN [s |-> s, err |-> "unsupported"]
    ELSE IF fault = "extract" THEN [s |-> s, err |-> "extract"]
    ELSE [s |-> Logged([s EXCEPT !.dirs[version] = "full"], "Extracted"), err |-> ""]

(* Install, lines 254-296: the extracted sub-directory is moved up; every   *)
(* failure in there is a warning                                            *)
Flatten(s) == Logged(s, "Flattened")

(* what Provider.PostInstall does to the directories.  The .NET provider     *)
(* finds the files under <base>/<version>, moves them to                    *)
(* <base>/<component>/<version> and deletes <base>/<version>; for the other *)
(* toolchains the hook leaves the version directory in place                *)
PostInstallMoves(name, s, version) ==
    IF name # "dotnet" THEN s
    ELSE [s EXCEPT !.dirs[version] = "none",
                   !.comp[s.componentType][version].content = "full"]

(* Provider.PostInstall: postOK is whether the hook finds what it looks for  *)
(* (the .NET provider dotnet.exe, the Java and Go providers a readable      *)
(* directory); the Node.js hook does nothing                                *)
PostInstall(name, s, version, postOK) ==
    IF postOK \/ name = "node"
    THEN [s |-> Logged(PostInstallMoves(name, Logged(s, "PostInstall"), version), "PostInstalled"),
          err |-> ""]
    ELSE [s |-> PostInstallMoves(name, Logged(s, "PostInstall"), version), err |-> "postinstall"]

(* a fallback that leaves the failed version's record in the configuration *)
FallthroughToNextVersion_KeepsRecord(s, currentVersion, availableVersions) ==
    [s    |-> IF DirExists(s, currentVersion)
              THEN [s EXCEPT !.dirs[currentVersion] = "none"]
              ELSE s,
     next |-> GetNextVersionFromList(currentVersion, availableVersions)]

(* FallthroughToNextVersion up to the recursive call: delete the failed     *)
(* version's directory, drop its record, pick the next list entry           *)
FallthroughToNextVersion(s, currentVersion, availableVersions) ==
    [s    |-> RemoveVersionInfo(IF DirExists(s, currentVersion)
                                THEN [s EXCEPT !.dirs[currentVersion] = "none"]
                                ELSE s,
                                currentVersion),
     next |-> GetNextVersionFromList(currentVersion, availableVersions)]

(* the deepest chain of installs one command may start *)
MaxDepth == CatalogLen + 2

(* BaseSDK.Install with FallthroughToNextVersion, in the order of its code.  *)
(* F holds the answers of the outside world (F.dl[n] for the n-th candidate *)
(* this command handles), tried the candidates handled so far, fuel the     *)
(* depth left to the chain of installs.  The result is the state the        *)
(* command leaves, its error ("" for none) and the candidates it handled.   *)
RECURSIVE Install(_, _, _, _, _, _)

Handled(tried, version, how) == Append(tried, [version |-> version, how |-> how])

(* success reported whatever the hook returned *)
InstallArchive_IgnoresHookError(post, target, how, tried) ==
    [s |-> post.s, err |-> "", tried |-> Handled(tried, target, how)]

(* Install, lines 298-304: the outcome post of PostInstall *)
InstallArchive(post, target, how, tried) ==
    [s |-> post.s, err |-> post.err, tried |-> Handled(tried, target, how)]

(* the hook invoked whatever the extraction returned *)
InstallExtracted_HookAnyway(name, ex, target, how, F, tried) ==
    InstallArchive(PostInstall(name, Flatten(ex.s), target, F.fault # "postinstall"),
                   target, how, tried)

(* Install, lines 250-300: the outcome ex of the extraction *)
InstallExtracted(name, ex, target, how, F, tried) ==
    IF ex.err # ""
    THEN [s |-> ex.s, err |-> ex.err, tried |-> Handled(tried, target, how)]
    ELSE InstallArchive(PostInstall(name, Flatten(ex.s), target, F.fault # "postinstall"),
                        target, how, tried)

(* FallthroughToNextVersion, lines 627-635: recurse or give up *)
InstallNext(name, fall, failed, F, tried, fuel) ==
    IF fall.next.found
    THEN Install(name, fall.s, HandlersRemove(name, fall.next.version), F,
                 Handled(tried, failed, "failed"), fuel - 1)
    ELSE [s |-> fall.s, err |-> "nodownloadable", tried |-> Handled(tried, failed, "failed")]

(* Install, lines 211-219: the outcome dl of the download *)
InstallDownloaded(name, prepared, dl, best, F, tried, fuel) ==
    IF dl.err # ""
    THEN InstallNext(name, FallthroughToNextVersion(prepared, best.version, best.sorted),
                     best.version, F, tried, fuel)
    ELSE InstallExtracted(name, ExtractArchive(Logged(dl.s, "ArchiveObtained"), best.version,
                                         ExtractFault(name, dl.s, F.fault)),
                          best.version, "downloaded", F, tried)

(* Install, lines 192-220, after PrepareInstallDir: cache, URL, download *)
InstallPrepared(name, prepared, best, F, tried, fuel) ==
    IF GetCachedFile(prepared, best.version)
    THEN InstallExtracted(name, ExtractArchive(Logged(prepared, "ArchiveObtained"), best.version,
                                         ExtractFault(name, prepared, F.fault)),
                          best.version, "cached", F, tried)
    ELSE IF F.dl[Len(tried) + 1] = "nourl"
    THEN [s |-> prepared, err |-> "nourl", tried |-> Handled(tried, best.version, "nourl")]
    ELSE InstallDownloaded(name, prepared,
                           DownloadOrUseCachedFile(prepared, best.version,
                                                   F.dl[Len(tried) + 1] = "ok"),
                           best, F, tried, fuel)

(* Install, lines 181-190, with the result best of FindBestVersion *)
InstallResolved(name, s, best, F, tried, fuel) ==
    IF ~best.found THEN [s |-> s, err |-> "notfound", tried |-> tried]
    ELSE InstallPrepared(name, Logged(PrepareInstallDir(Logged(s, "Resolved"), best.version),
                                      "DirPrepared"),
                         best, F, tried, fuel)

Install(name, s, version, F, tried, fuel) ==
    IF fuel = 0 THEN [s |-> s, err |-> "diverged", tried |-> tried]
    ELSE IF F.fault = "list" THEN [s |-> s, err |-> "list", tried |-> tried]
    ELSE InstallResolved(name, s, Resolution[name][HandlersAdd(name, version)], F, tried, fuel)

----------------------------------------------------------------------------
(* activation *)

(* the classification loop of SetupEnv: the EnvManager it builds *)
EnvManagerOf(name, envVars) ==
    LET homes == {i \in 1..Len(envVars) : HasSuffix(envVars[i].Key, KeyHOME)}
        paths == {i \in 1..Len(envVars) : i \notin homes /\ envVars[i].Key = KeyPATH}
        excls == {i \in 1..Len(envVars) : i \notin homes /\ i \notin paths
                                          /\ envVars[i].Key = KeyEXCLUDE}
        Last(S) == CHOOSE i \in S : \A j \in S : j <= i
        binPath == IF paths = {} THEN "" ELSE envVars[Last(paths)].Value
    IN  [HomeVar  |-> IF homes = {} THEN <<>> ELSE envVars[Last(homes)].Key,
         HomePath |-> IF homes = {} THEN "" ELSE envVars[Last(homes)].Value,
         BinPath  |-> IF binPath # "" THEN binPath
                      ELSE IF name = "node" THEN "current" ELSE "current/bin",
         ExcludeKeywords |-> IF excls = {} THEN "" ELSE envVars[Last(excls)].Value,
         ExtraVars |-> {envVars[i].Key : i \in {j \in (1..Len(envVars)) \ (homes \cup paths \cup excls) :
                                                     envVars[j].Key # <<>> /\ envVars[j].Value # ""}}]

(* EnvManager.SetEnv: setUnixEnv starts with os.Setenv(HomeVar, HomePath),   *)
(* which rejects an empty name; setWindowsEnv runs PowerShell elevated,      *)
(* which the outside world may refuse                                        *)
SetEnv(platform, envManager, scriptOK) ==
    IF platform = "windows"
    THEN (IF scriptOK THEN "" ELSE "setWindowsEnv")
    ELSE (IF envManager.HomeVar = <<>> THEN "setUnixEnv" ELSE "")

(* SetupEnv, lines 472-481: the outcome err of SetEnv, then the binding *)
SetupApplied(saved, err, version) ==
    IF err # "" THEN [s |-> saved, err |-> err]
    ELSE [s |-> SetCurrentVersion(saved, version), err |-> ""]

(* SetupEnv, lines 428-470: with the outcome cfg of the provider's          *)
(* ConfigureEnv; the snapshot is saved before the environment is applied    *)
SetupConfigured(name, platform, s, version, cfg, F) ==
    IF cfg.err # "" THEN [s |-> s, err |-> cfg.err]
    ELSE SetupApplied(SetSDKEnvVars(s, cfg.envVars),
                      SetEnv(platform, EnvManagerOf(name, cfg.envVars), F.fault # "setenv"),
                      version)

(* BaseSDK.SetupEnv *)
SetupEnv(name, platform, s, version, F) ==
    IF ~StatCurrent(s) THEN [s |-> s, err |-> "nocurrent"]
    ELSE SetupConfigured(name, platform, s, version, ConfigureEnv(name, CurrentContent(s)), F)

(* BaseSDK.getLatestMatchingVersion; versions is what b.List() answers *)
getLatestMatchingVersion(name, versionPrefix, versions) ==
    LET Match(v) == HasPrefix(v, versionPrefix)
        k        == FirstIndex([i \in 1..Len(versions) |-> Match(versions[i])])
        best     == FindBestVersion(name, versionPrefix, versions)
    IN  IF versionPrefix = <<>> \/ versionPrefix = HandlersAdd(name, <<>>)
        THEN (IF Len(versions) > 0 THEN [version |-> versions[1], err |-> ""]
              ELSE [version |-> NoVersion, err |-> "noversions"])
        ELSE IF k # 0 THEN [version |-> versions[k], err |-> ""]
        ELSE IF best.found THEN [version |-> best.version, err |-> ""]
        ELSE [version |-> NoVersion, err |-> "nomatch"]

LatestMatching ==
    [name \in Toolchains |-> [r \in Asked(name) |-> getLatestMatchingVersion(name, r, GetVersionList(name))]]

(* Use, lines 344-372: the old entry is removed only if os.Stat, which       *)
(* follows links, finds it                                                   *)
RemoveOldCurrent(s) == IF StatCurrent(s) THEN [s EXCEPT !.cur = NoEntry] ELSE s

(* Use, lines 374-391: a symbolic link on Unix; on Windows a junction, and   *)
(* a copy of the version directory when mklink fails                         *)
CreateLink(platform, s, version, linkOK) ==
    LET free == s.cur.kind = "none"
    IN  IF platform = "unix"
        THEN IF free /\ linkOK
             THEN [s |-> [s EXCEPT !.cur = [kind |-> "symlink", target |-> version, content |-> "none"]],
                   err |-> ""]
             ELSE [s |-> s, err |-> "symlink"]
        ELSE IF free /\ linkOK
             THEN [s |-> [s EXCEPT !.cur = [kind |-> "junction", target |-> version, content |-> "none"]],
                   err |-> ""]
        ELSE IF ~free THEN [s |-> s, err |-> "copy"]
        ELSE IF ~DirExists(s, version)
             THEN [s |-> [s EXCEPT !.cur = [kind |-> "copy", target |-> version, content |-> "empty"]],
                   err |-> "copy"]
        ELSE [s |-> [s EXCEPT !.cur = [kind |-> "copy", target |-> version,
                                       content |-> s.dirs[version]]],
              err |-> ""]

(* Use, lines 393-412 *)
ApplyAndPersist(name, platform, s, version, F) ==
    IF Len(s.envVars) = 0
    THEN SetupEnv(name, platform, s, version, F)
    ELSE SetupEnv(name, platform, SetCurrentVersion(s, version), version, F)

(* Use, lines 393-414: the outcome applied of the environment step *)
UseApplied(applied, tried, version) ==
    [s |-> applied.s, err |-> applied.err, tried |-> tried, version |-> version]

(* Use, lines 374-412: with the outcome link of the link creation *)
UseLinked(name, platform, link, tried, version, F) ==
    IF link.err # ""
    THEN [s |-> link.s, err |-> link.err, tried |-> tried, version |-> version]
    ELSE UseApplied(ApplyAndPersist(name, platform, link.s, version, F), tried, version)

(* Use, lines 335-391: with the outcome inst of the install, if one ran;    *)
(* the link is made to the version asked for                                *)
UseInstalled(name, platform, inst, version, F) ==
    IF inst.err # ""
    THEN [s |-> inst.s, err |-> inst.err, tried |-> inst.tried, version |-> version]
    ELSE UseLinked(name, platform,
                   CreateLink(platform, RemoveOldCurrent(inst.s), version, F.fault # "link"),
                   inst.tried, version, F)

(* Use, lines 323-339: the asked directory is missing; latest is the        *)
(* outcome of getLatestMatchingVersion                                      *)
UseLatest(name, platform, s, latest, F) ==
    IF F.fault = "list"
    THEN [s |-> s, err |-> "list", tried |-> <<>>, version |-> latest.version]
    ELSE IF latest.err # ""
    THEN [s |-> s, err |-> latest.err, tried |-> <<>>, version |-> latest.version]
    ELSE IF DirExists(s, latest.version)
    THEN UseInstalled(name, platform, [s |-> s, err |-> "", tried |-> <<>>],
                      latest.version, F)
    ELSE UseInstalled(name, platform, Install(name, s, latest.version, F, <<>>, MaxDepth),
                      latest.version, F)

(* Use, lines 317-321: with the normalised version asked for *)
UseAsked(name, platform, s, asked, F) ==
    IF DirExists(s, asked)
    THEN UseInstalled(name, platform, [s |-> s, err |-> "", tried |-> <<>>], asked, F)
    ELSE UseLatest(name, platform, s, LatestMatching[name][asked], F)

(* BaseSDK.Use *)
Use(name, platform, s, request, F) ==
    UseAsked(name, platform, s, HandlersAdd(name, request), F)

----------------------------------------------------------------------------
(* removal *)

(* a removal that clears the binding but keeps the environment snapshot *)
ClearBindingIfCurrent_KeepsSnapshot(s, version) ==
    IF GetCurrentVersion(s) = version
    THEN SetCurrentVersion(s, NoVersion)
    ELSE s

(* RemoveSDKVersion, lines 729-741 *)
ClearBindingIfCurrent(s, version) ==
    IF GetCurrentVersion(s) = version
    THEN SetCurrentVersion(SetSDKEnvVars(s, <<>>), NoVersion)
    ELSE s

(* a removal that forgets the cache file along with the directory *)
DeleteInstallDir_ForgetsCache(s, version, removeOK) ==
    IF ~removeOK THEN [s |-> s, err |-> "removeall"]
    ELSE [s   |-> SetVersionInfo([s EXCEPT !.dirs[version] = "none"], version,
                                 [GetVersionInfo(s, version) EXCEPT !.InstallDir = NoPath,
                                                                    !.CacheFilePath = NoPath]),
          err |-> ""]

(* RemoveSDKVersion, lines 743-752 *)
DeleteInstallDir(s, version, removeOK) ==
    IF ~removeOK THEN [s |-> s, err |-> "removeall"]
    ELSE [s   |-> SetVersionInfo([s EXCEPT !.dirs[version] = "none"], version,
                                 [GetVersionInfo(s, version) EXCEPT !.InstallDir = NoPath]),
          err |-> ""]

(* RemoveSDKVersion, lines 722-756, for the normalised version *)
RemoveVersion(s, version, versionInfo, F) ==
    IF ~versionInfo.exists \/ versionInfo.InstallDir = NoPath
    THEN [s |-> s, err |-> "notinstalled"]
    ELSE DeleteInstallDir(ClearBindingIfCurrent(s, version), version, F.fault # "rm")

(* BaseSDK.Remove and RemoveSDKVersion *)
RemoveSDKVersion(name, s, request, F) ==
    RemoveVersion(s, HandlersAdd(name, request),
                  GetVersionInfo(s, HandlersAdd(name, request)), F)

----------------------------------------------------------------------------
(* activation of the multi-component toolchain: dotNetSDK overrides Use and *)
(* SetupEnv, and keeps one `current` and one binding per component          *)

KeyDOTNETROOT == <<"D", "O", "T", "N", "E", "T", "_", "R", "O", "O", "T">>

(* DotNetSDKProvider.ConfigureEnv *)
DotNetConfigureEnv(componentType) ==
    (IF componentType = "sdk" THEN << [Key |-> KeyDOTNETROOT, Value |-> "current"] >> ELSE <<>>)
    \o << [Key |-> KeyPATH, Value |-> "current"],
          [Key |-> KeyEXCLUDE, Value |-> "dotnet,component"] >>

(* utils.CheckDirExists(<installRoot>/dotnet/<component>/<version>) *)
ComponentDirExists(s, version) ==
    /\ version \in DOMAIN s.comp[s.componentType]
    /\ s.comp[s.componentType][version].content # "none"

(* SetupEnv, lines 138-155: os.Lstat finds the old entry, link or directory, *)
(* and it is removed                                                         *)
RemoveOldComponentCurrent(s) == [s EXCEPT !.ccur[s.componentType] = NoComponentEntry]

(* SetupEnv, lines 157-176: a symbolic link on Unix; on Windows a junction,  *)
(* and a copy of the version directory, its .version file included, when    *)
(* mklink fails                                                              *)
DotNetCreateLink(platform, s, version, linkOK) ==
    IF linkOK
    THEN [s   |-> [s EXCEPT !.ccur[s.componentType] =
                        [kind |-> IF platform = "unix" THEN "symlink" ELSE "junction",
                         target |-> version, content |-> "none", mark |-> NoVersion]],
          err |-> ""]
    ELSE IF platform = "unix" THEN [s |-> s, err |-> "symlink"]
    ELSE [s   |-> [s EXCEPT !.ccur[s.componentType] =
                        [kind |-> "copy", target |-> version,
                         content |-> s.comp[s.componentType][version].content,
                         mark |-> s.comp[s.componentType][version].mark]],
          err |-> ""]

(* SetupEnv, lines 178-182: os.WriteFile(current/.version, version); through *)
(* a link the file lands in the version directory; a failure is a warning    *)
WriteVersionFile(s, version, writeOK) ==
    IF ~writeOK THEN s
    ELSE IF s.ccur[s.componentType].kind = "copy"
    THEN [s EXCEPT !.ccur[s.componentType].mark = version]
    ELSE [s EXCEPT !.comp[s.componentType][s.ccur[s.componentType].target].mark = version]

(* SetupEnv, lines 233-252, and Use, lines 294-313 *)
SetComponentVersion(s, version) == [s EXCEPT !.components[s.componentType] = version]

(* SetupEnv, lines 229-255: the outcome err of SetEnv, then the binding *)
DotNetSetupApplied(saved, err, version) ==
    IF err # "" THEN [s |-> saved, err |-> err]
    ELSE [s |-> SetComponentVersion(saved, version), err |-> ""]

(* SetupEnv, lines 178-227: with the outcome link of the link creation *)
DotNetSetupLinked(platform, link, version, F) ==
    IF link.err # "" THEN link
    ELSE DotNetSetupApplied(
             SetSDKEnvVars(WriteVersionFile(link.s, version, F.fault # "mark"),
                           DotNetConfigureEnv(link.s.componentType)),
             SetEnv(platform, EnvManagerOf("dotnet", DotNetConfigureEnv(link.s.componentType)),
                    F.fault # "setenv"),
             version)

(* dotNetSDK.SetupEnv *)
DotNetSetupEnv(platform, s, version, F) ==
    IF ~ComponentDirExists(s, version) THEN [s |-> s, err |-> "noversiondir"]
    ELSE DotNetSetupLinked(platform,
                           DotNetCreateLink(platform, RemoveOldComponentCurrent(s), version,
                                            F.fault # "link"),
                           version, F)

(* Use, lines 289-316: the outcome applied of SetupEnv *)
DotNetUseApplied(applied, tried, version) ==
    [s       |-> IF applied.err = "" THEN SetComponentVersion(applied.s, version) ELSE applied.s,
     err     |-> applied.err,
     tried   |-> tried,
     version |-> version]

(* Use, lines 276-292: the outcome inst of the install; the directory is    *)
(* looked for again                                                          *)
DotNetUseInstalled(platform, inst, version, F) ==
    IF inst.err # ""
    THEN [s |-> inst.s, err |-> inst.err, tried |-> inst.tried, version |-> version]
    ELSE IF ~ComponentDirExists(inst.s, version)
    THEN [s |-> inst.s, err |-> "stillmissing", tried |-> inst.tried, version |-> version]
    ELSE DotNetUseApplied(DotNetSetupEnv(platform, inst.s, version, F), inst.tried, version)

(* dotNetSDK.Use *)
DotNetUse(platform, s, version, F) ==
    IF ComponentDirExists(s, version)
    THEN DotNetUseApplied(DotNetSetupEnv(platform, s, version, F), <<>>, version)
    ELSE DotNetUseInstalled(platform, Install("dotnet", s, version, F, <<>>, MaxDepth), version, F)

----------------------------------------------------------------------------
(* the commands as a state machine: one toolchain on one machine, driven by *)
(* successive invocations of svm <sdk> install | use | remove               *)

(* probe holds the arguments and the result of a library function when one  *)
(* is exercised on its own, outside the commands                            *)
VARIABLES sdk, platform, dirs, cur, legacy, current, envVars, vc, files, comp, ccur,
          components, last, probe

vars == <<sdk, platform, dirs, cur, legacy, current, envVars, vc, files, comp, ccur,
          components, last, probe>>

(* what the commands read and write *)
commandVars == <<sdk, platform, dirs, cur, legacy, current, envVars, vc, files, comp, ccur,
                 components, last>>

(* what a command starts from: the provider is new, with its default        *)
(* component type, and nothing is logged                                    *)
State == [dirs |-> dirs, cur |-> cur, legacy |-> legacy, current |-> current,
          envVars |-> envVars, vc |-> vc, files |-> files, comp |-> comp, ccur |-> ccur,
          components |-> components, componentType |-> "sdk", log |-> <<>>,
          os |-> platform]

Becomes(s) ==
    /\ dirs' = s.dirs
    /\ cur' = s.cur
    /\ legacy' = s.legacy
    /\ current' = s.current
    /\ envVars' = s.envVars
    /\ vc' = s.vc
    /\ files' = s.files
    /\ comp' = s.comp
    /\ ccur' = s.ccur
    /\ components' = s.components

(* the answers of the outside world during one command: the downloads fail *)
(* for the first k candidates and then the next one is answered by `then`,  *)
(* or every download fails; besides that at most one other failure, named   *)
(* by fault                                                                 *)
FinalAnswers(name) == IF MayReturnEmptyURL(name) THEN {"ok", "nourl"} ELSE {"ok"}

DownloadScript(k, then) == [n \in 1..(MaxDepth + 1) |-> IF n <= k THEN "fail" ELSE then]

NoFault == [dl |-> DownloadScript(0, "ok"), fault |-> "none"]

EveryDownloadFails == [dl |-> DownloadScript(MaxDepth + 1, "fail"), fault |-> "none"]

InstallWorlds(name) ==
    {[dl |-> DownloadScript(k, then), fault |-> "none"] :
        k \in 0..(CatalogLen - 1), then \in FinalAnswers(name)}
    \cup {EveryDownloadFails}
    \cup {[NoFault EXCEPT !.fault = "extract"]}
    \cup {[NoFault EXCEPT !.fault = "list"]}
    \cup (IF name # "node" THEN {[NoFault EXCEPT !.fault = "postinstall"]} ELSE {})
    \cup (IF name = "dotnet" THEN {[NoFault EXCEPT !.fault = "unsupported"]} ELSE {})

UseWorlds(name, os) ==
    InstallWorlds(name)
    \cup {[NoFault EXCEPT !.fault = "link"]}
    \cup (IF os = "windows" THEN {[NoFault EXCEPT !.fault = "setenv"]} ELSE {})

RemoveWorlds == {NoFault, [NoFault EXCEPT !.fault = "rm"]}

Machines == {<<"node", "unix">>, <<"java", "windows">>, <<"go", "unix">>, <<"python", "unix">>}

(* what a command found when it started, kept for the properties:          *)
(* the binding and snapshot, and the record, directory and cache of the     *)
(* version the command is about                                             *)
Before(version) ==
    [current  |-> GetCurrentVersion(State),
     envVars  |-> envVars,
     info     |-> GetVersionInfo(State, version),
     dir      |-> IF version \in DOMAIN dirs THEN dirs[version] ELSE "none",
     dangling |-> Dangling(State),
     cached   |-> {v \in DOMAIN vc : GetCachedFile(State, v)},
     components |-> components]

NoProbe == [fn |-> "none"]

(* an empty install root and an empty configuration file *)
Fresh ==
    /\ dirs = [v \in Versions(sdk) |-> "none"]
    /\ cur = NoEntry
    /\ legacy = NoVersion
    /\ current = NoVersion
    /\ envVars = <<>>
    /\ vc = [v \in Versions(sdk) |-> NoInfo]
    /\ files = {}
    /\ comp = [c \in ComponentTypes |-> [v \in Versions(sdk) |-> NoComponentDir]]
    /\ ccur = [c \in ComponentTypes |-> NoComponentEntry]
    /\ components = [c \in ComponentTypes |-> NoVersion]
    /\ last = [op |-> "none", version |-> NoVersion, err |-> "", tried |-> <<>>,
               clean |-> TRUE, fault |-> "none", component |-> "sdk", log |-> <<>>,
               pre |-> Before(NoVersion)]

Init ==
    /\ \E m \in Machines : sdk = m[1] /\ platform = m[2]
    /\ Fresh
    /\ probe = NoProbe

(* a command has run: r is what it left, version the version it was about *)
Recorded(op, r, version, tried, F) ==
    /\ Becomes(r.s)
    /\ last' = [op |-> op, version |-> version, err |-> r.err, tried |-> tried,
                clean |-> F.fault = "none", fault |-> F.fault,
                component |-> r.s.componentType, log |-> r.s.log,
                pre |-> Before(version)]
    /\ UNCHANGED <<sdk, platform>>

Ran(op, r, version, tried, F) ==
    /\ Recorded(op, r, version, tried, F)
    /\ UNCHANGED probe

InstallRan(r, version, F) == Ran("install", r, version, r.tried, F)

UseRan(r, F) == Ran("use", r, r.version, r.tried, F)

(* svm <sdk> install <version> *)
InstallCmd ==
    \E request \in Requests(sdk), F \in InstallWorlds(sdk) :
        InstallRan(Install(sdk, State, request, F, <<>>, MaxDepth),
                   Resolution[sdk][HandlersAdd(sdk, request)].version, F)

(* svm <sdk> use <version> *)
UseCmd ==
    \E request \in Requests(sdk), F \in UseWorlds(sdk, platform) :
        UseRan(Use(sdk, platform, State, request, F), F)

(* svm <sdk> remove <version> *)
RemoveCmd ==
    \E request \in Requests(sdk), F \in RemoveWorlds :
        Ran("remove", RemoveSDKVersion(sdk, State, request, F),
            HandlersAdd(sdk, request), <<>>, F)

Next == InstallCmd \/ UseCmd \/ RemoveCmd

Spec == Init /\ [][Next]_vars

----------------------------------------------------------------------------
(* properties of the commands *)

(* the catalog as Install sorts it, and a version's place in it *)
SortedCatalog == [name \in Toolchains |-> SortVersionsDesc(GetVersionList(name))]

Catalog == SortedCatalog[sdk]

Place(v) == CHOOSE i \in 1..Len(Catalog) : Catalog[i] = v

(* C1: after any sequence of commands, whenever `current` exists it         *)
(* resolves to an existing version directory, and that directory is the one *)
(* of the version GetCurrentVersion reports                                 *)
C1_CurrentResolvesToActiveVersion ==
    cur.kind # "none" =>
        /\ DirExists(State, cur.target)
        /\ cur.target = GetCurrentVersion(State)

(* C2: Use of an installed version X, with nothing failing outside the      *)
(* program and no dangling `current` in the way, succeeds, the first time   *)
(* and every time after; it leaves X as the active version and `current`    *)
(* resolving to X's existing directory                                      *)
C2_UseOfInstalledVersionSucceeds ==
    (last.op = "use" /\ last.clean /\ last.pre.dir = "full" /\ ~last.pre.dangling) =>
        /\ last.err = ""
        /\ GetCurrentVersion(State) = last.version
        /\ cur.kind # "none"
        /\ cur.target = last.version
        /\ DirExists(State, last.version)

(* C28: on Unix, a Use that reaches the environment step with a set that    *)
(* holds no key ending in _HOME has the set applied: the step does not fail *)
(* and the Use does not fail because of it                                  *)
C28_HomePairIsOptional ==
    (/\ last.op = "use"
     /\ platform = "unix"
     /\ Len(envVars) > 0
     /\ EnvManagerOf(sdk, envVars).HomeVar = <<>>
     /\ cur.target = last.version
     /\ StatCurrent(State)) =>
        last.err # "setUnixEnv"

(* C32: a Use of a version whose directory an earlier Install left without  *)
(* content, having failed after creating it, does not succeed and bind the  *)
(* version unless it has completed the installation                         *)
C32_UseCompletesInstallation ==
    (last.op = "use" /\ last.pre.dir = "empty" /\ last.pre.info.exists) =>
        \/ dirs[last.version] = "full"
        \/ /\ last.err # ""
           /\ GetCurrentVersion(State) = last.version => last.pre.current = last.version

(* C3: a Use that returns an error leaves the persisted active version and  *)
(* the persisted environment snapshot as they were before the call          *)
C3_FailedUsePersistsNothing ==
    (last.op = "use" /\ last.err # "") =>
        /\ GetCurrentVersion(State) = last.pre.current
        /\ envVars = last.pre.envVars

(* C4: after a successful Remove of the installed, active version v,        *)
(* GetCurrentVersion is empty, the environment snapshot is empty, v's       *)
(* directory is gone and v's record has an empty InstallDir                 *)
C4_RemoveActiveClearsAll ==
    (last.op = "remove" /\ last.err = "" /\ last.pre.current = last.version) =>
        /\ GetCurrentVersion(State) = NoVersion
        /\ envVars = <<>>
        /\ ~DirExists(State, last.version)
        /\ GetVersionInfo(State, last.version).InstallDir = NoPath

C4_Witness ==
    /\ last.op = "remove"
    /\ last.err = ""
    /\ last.pre.current = last.version
    /\ last.pre.dir = "full"
    /\ Len(last.pre.envVars) > 0

(* C5: a Remove of the active version that fails leaves the active version  *)
(* and the environment snapshot as they were: the binding is never cleared  *)
(* while the version's directory and InstallDir are still there             *)
C5_FailedRemoveKeepsBinding ==
    (last.op = "remove" /\ last.err # "" /\ last.pre.current = last.version) =>
        /\ GetCurrentVersion(State) = last.pre.current
        /\ envVars = last.pre.envVars

(* C6: a successful Remove leaves the version's CacheFilePath and the cache *)
(* file as they were, and an Install of a removed version whose recorded    *)
(* cache file is on disk takes the archive from the cache: it handles that  *)
(* one version and downloads nothing                                        *)
C6_CacheSurvivesRemoval ==
    /\ (last.op = "remove" /\ last.err = "") =>
            /\ GetVersionInfo(State, last.version).CacheFilePath = last.pre.info.CacheFilePath
            /\ last.pre.info.CacheFilePath # NoPath => last.pre.info.CacheFilePath \in files
    /\ (/\ last.op = "install"
        /\ last.err # "list"
        /\ last.pre.info.exists
        /\ last.pre.info.InstallDir = NoPath
        /\ last.pre.info.CacheFilePath \in files) =>
            last.tried = <<[version |-> last.version, how |-> "cached"]>>

C6_Witness ==
    /\ last.op = "install"
    /\ last.err = ""
    /\ last.pre.info.exists
    /\ last.pre.info.InstallDir = NoPath
    /\ last.pre.info.CacheFilePath \in files
    /\ last.tried = <<[version |-> last.version, how |-> "cached"]>>
    /\ dirs[last.version] = "full"

(* C7: every candidate whose download failed has, once the command returns, *)
(* no directory and no record, and the candidate handled right after it is  *)
(* the next entry of the descending catalog; if there is no next entry the  *)
(* command ends there                                                       *)
C7_FailedCandidateDroppedNextTried ==
    \A i \in 1..Len(last.tried) :
        last.tried[i].how = "failed" =>
            LET v == last.tried[i].version
            IN  /\ ~GetVersionInfo(State, v).exists
                /\ ~DirExists(State, v)
                /\ IF Place(v) < Len(Catalog)
                   THEN /\ i < Len(last.tried)
                        /\ last.tried[i + 1].version = Catalog[Place(v) + 1]
                   ELSE i = Len(last.tried)

C7_Witness ==
    /\ last.op = "install"
    /\ last.err = ""
    /\ Len(last.tried) = 2
    /\ last.tried[1].how = "failed"
    /\ last.tried[1].version = last.version
    /\ last.tried[2].how = "downloaded"
    /\ last.pre.info.exists

(* C8: a candidate for which the provider returns an empty download URL is  *)
(* handled as a failed download: the command does not end with the URL      *)
(* error, and the next catalog entry, if any, is tried                      *)
C8_EmptyURLFallsBack ==
    \A i \in 1..Len(last.tried) :
        last.tried[i].how = "nourl" =>
            /\ last.err # "nourl"
            /\ Place(last.tried[i].version) < Len(Catalog) => i < Len(last.tried)

(* C9: the chain of installs never outruns the catalog, and when every      *)
(* download fails the candidates handled are exactly the catalog entries    *)
(* from the resolved one down to the last, each once, strictly descending,  *)
(* and the command ends with the no-downloadable-version error              *)
C9_FallbackTerminates ==
    /\ last.err # "diverged"
    /\ (last.tried # <<>> /\ \A i \in 1..Len(last.tried) : last.tried[i].how = "failed") =>
            LET first == Place(last.tried[1].version)
            IN  /\ last.err = "nodownloadable"
                /\ last.op = "install" => last.tried[1].version = last.version
                /\ Len(last.tried) = Len(Catalog) - first + 1
                /\ \A i \in 1..Len(last.tried) : last.tried[i].version = Catalog[first + i - 1]
                /\ \A i \in 1..(Len(last.tried) - 1) :
                        compareVersions(last.tried[i].version, last.tried[i + 1].version)

C9_Witness ==
    /\ last.op = "install"
    /\ last.err = "nodownloadable"
    /\ Len(last.tried) = Len(Catalog)
    /\ Len(last.tried) >= 2
    /\ \A i \in 1..Len(last.tried) : last.tried[i].how = "failed"

(* C10: a Use that ran Install and ends with no directory for the version   *)
(* it was about has not made `current` a link to that missing directory and *)
(* has not persisted that version as the active one                         *)
C10_UseRechecksAfterInstall ==
    (last.op = "use" /\ last.tried # <<>> /\ ~DirExists(State, last.version)) =>
        /\ (Dangling(State) /\ cur.target = last.version) => last.pre.dangling
        /\ GetCurrentVersion(State) = last.version => last.pre.current = last.version

(* C11: a Use of a version that is already installed, with nothing failing  *)
(* outside the program, replaces whatever entry was at `current`, a link    *)
(* whose target was deleted included: it does not fail at the link step,    *)
(* and `current` then leads to the version used                             *)
C11_UseReplacesAnyCurrent ==
    (last.op = "use" /\ last.clean /\ last.pre.dir = "full") =>
        /\ last.err \notin {"symlink", "copy"}
        /\ cur.kind # "none"
        /\ cur.target = last.version

(* C21: a candidate whose cache lookup is a hit when the command starts is  *)
(* taken from the cache, with no URL asked for and no download, and only    *)
(* such a candidate is; a candidate that was downloaded has its archive in  *)
(* the toolchain's cache directory and registered, so that the lookup for   *)
(* it is now a hit; an Install of a version whose lookup is a hit handles   *)
(* that one version, from the cache                                         *)
C21_HitSkipsDownloadMissRegisters ==
    /\ \A i \in 1..Len(last.tried) :
            LET v == last.tried[i].version
            IN  /\ last.tried[i].how = "cached" <=> v \in last.pre.cached
                /\ last.tried[i].how = "downloaded" =>
                        /\ CachePath(v) \in files
                        /\ GetVersionInfo(State, v).CacheFilePath = CachePath(v)
                        /\ GetCachedFile(State, v)
    /\ (last.op = "install" /\ last.tried # <<>> /\ last.version \in last.pre.cached) =>
            last.tried = <<[version |-> last.version, how |-> "cached"]>>

C21_Witness ==
    /\ last.op = "install"
    /\ last.err = ""
    /\ last.pre.info.InstallDir # NoPath
    /\ last.pre.dir = "full"
    /\ last.version \in last.pre.cached
    /\ last.tried = <<[version |-> last.version, how |-> "cached"]>>

----------------------------------------------------------------------------
(* the environment applier on its own: one toolchain's environment applied  *)
(* again and again to a PATH, given as the list of its segments             *)

(* strings.Split(s, sep) for a one-character separator *)
RECURSIVE Split(_, _)
Split(s, sep) ==
    IF \A i \in 1..Len(s) : s[i] # sep
    THEN <<s>>
    ELSE LET k == CHOOSE i \in 1..Len(s) :
                     s[i] = sep /\ \A j \in 1..(i - 1) : s[j] # sep
         IN  <<SubSeq(s, 1, k - 1)>> \o Split(SubSeq(s, k + 1, Len(s)), sep)

(* filepath.Join of two elements *)
Join(dir, elem) == dir \o <<"/">> \o elem

(* Config.InstallDir, and BaseSDK.InstallDir below it *)
InstallRoot == <<"/", "s">>

(* BaseSDK.Name as a directory name *)
SDKText(name) ==
    IF name = "node" THEN <<"n", "o", "d", "e">>
    ELSE IF name = "java" THEN <<"j", "a", "v", "a">>
    ELSE <<"g", "o">>

SDKDir(name) == Join(InstallRoot, SDKText(name))

CurrentDir(name) == Join(SDKDir(name), <<"c", "u", "r", "r", "e", "n", "t">>)

(* the PATH entry of ConfigureEnv, or else the provider's GetBinDir *)
BinPathOf(name) ==
    IF name = "node" THEN CurrentDir(name) ELSE Join(CurrentDir(name), <<"b", "i", "n">>)

(* the EXCLUDE_KEYWORDS entry of ConfigureEnv *)
ExcludeValue(name) ==
    IF name = "node" THEN <<"n", "o", "d", "e">>
    ELSE IF name = "java" THEN <<"j", "a", "v", "a", ",", "j", "d", "k", ",", "o", "p", "e", "n", "j", "d", "k">>
    ELSE <<"g", "o", "l", "a", "n", "g", ",", "g", "o">>

(* the EnvManager SetupEnv builds, with its paths and keywords spelled out *)
EnvManagerText(name) ==
    [HomeVar |-> EnvManagerOf(name, ConfigureEnv(name, "full").envVars).HomeVar,
     BinPath |-> BinPathOf(name),
     ExcludeKeywords |-> Split(ExcludeValue(name), ",")]

(* setWindowsEnv, lines 46-52 *)
ShouldKeep(p, keywords) ==
    \A i \in 1..Len(keywords) : ~Contains(ToLower(p), ToLower(keywords[i]))

(* setWindowsEnv, lines 39-60: the machine PATH it writes *)
setWindowsEnvPath(e, paths) ==
    LET Kept(p) == p # <<>> /\ ShouldKeep(p, e.ExcludeKeywords)
    IN  <<e.BinPath>> \o SelectSeq(paths, Kept)

(* setUnixEnv, lines 138-140: the process PATH it sets *)
setUnixEnvPath(e, paths) == <<e.BinPath>> \o paths

(* EnvManager.SetEnv: the PATH it leaves; an error leaves it as it was *)
SetEnvPath(os, e, paths, err) ==
    IF err # "" THEN paths
    ELSE IF os = "windows" THEN setWindowsEnvPath(e, paths)
    ELSE setUnixEnvPath(e, paths)

(* longest PATH the applier starts from, and how often it is applied *)
MaxPathLen == 2
MaxApply == 2

(* PATH segments met before svm ran: a system directory, another copy of   *)
(* the toolchain, and the bin path left by an earlier Use                   *)
Segments(name) ==
    {<<"/", "b", "i", "n">>, Join(<<"/", "o", "p", "t">>, SDKText(name)), BinPathOf(name)}

StartPaths(name) ==
    UNION {[1..n -> Segments(name)] : n \in 1..MaxPathLen}

InitEnv ==
    /\ \E name \in SDKNames, os \in Platforms : sdk = name /\ platform = os
    /\ Fresh
    /\ \E paths \in StartPaths(sdk) :
            probe = [fn |-> "SetEnv", path |-> paths, prev |-> paths, applied |-> 0,
                     err |-> ""]

(* the outcome err of SetEnv and the PATH it left *)
EnvApplied(err, paths) ==
    /\ probe' = [fn |-> "SetEnv", path |-> paths, prev |-> probe.path,
                 applied |-> probe.applied + 1, err |-> err]
    /\ UNCHANGED commandVars

EnvStep(e, err) == EnvApplied(err, SetEnvPath(platform, e, probe.path, err))

(* SetupEnv reaches envManager.SetEnv once more *)
ApplyEnv ==
    /\ probe.applied < MaxApply
    /\ probe.err = ""
    /\ \E scriptOK \in BOOLEAN :
            EnvStep(EnvManagerText(sdk), SetEnv(platform, EnvManagerText(sdk), scriptOK))

NextEnv == ApplyEnv

SpecEnv == InitEnv /\ [][NextEnv]_vars

(* C12: once the environment was applied without error, PATH starts with    *)
(* the toolchain's bin path, holds it exactly once, and holds no other      *)
(* segment containing an exclude keyword; applied a second time, PATH is    *)
(* no longer than after the first                                           *)
C12_PathDeduplicated ==
    (probe.applied >= 1 /\ probe.err = "") =>
        LET e == EnvManagerText(sdk)
        IN  /\ probe.path[1] = e.BinPath
            /\ \A i \in 2..Len(probe.path) :
                    /\ probe.path[i] # e.BinPath
                    /\ ShouldKeep(probe.path[i], e.ExcludeKeywords)
            /\ probe.applied >= 2 => Len(probe.path) <= Len(probe.prev)

----------------------------------------------------------------------------
(* the resolver on its own: FindBestMatchingVersion called with a request,  *)
(* a catalog sorted as FindBestVersion sorts it, and a prefix to strip      *)

(* most catalog entries handed to the resolver in one call *)
MaxCandidates == 2

(* catalog entries: dotted versions, the same with the Node.js prefix, and  *)
(* pre-releases that ParseVersion rejects                                   *)
ResolverPool ==
    << <<"2", "1", ".", "1">>,
       <<"1", "7", ".", "0", ".", "2">>,
       <<"1", "6", ".", "0", ".", "1">>,
       <<"1", "8", ".", "0", ".", "0", "a", "1">>,
       <<"2", "2", ".", "0", "r", "c", "1">>,
       <<"v", "1", "6", ".", "2", "0", ".", "2">>,
       <<"v", "1", "4", ".", "2", "1", ".", "3">> >>

(* the entries of the pool at the places picked, in the pool's order *)
RECURSIVE Picked(_, _)
Picked(places, i) ==
    IF i > Len(ResolverPool) THEN <<>>
    ELSE (IF i \in places THEN <<ResolverPool[i]>> ELSE <<>>) \o Picked(places, i + 1)

Catalogs ==
    {SortVersionsDesc(Picked(places, 1)) :
        places \in {c \in SUBSET (1..Len(ResolverPool)) :
                        Cardinality(c) >= 1 /\ Cardinality(c) <= MaxCandidates}}

ResolverRequests ==
    {<<"1", "7">>, <<"v", "1", "6">>, <<"1", "7", ".", "5">>, <<"1", ".", "0">>,
     <<"1", "6", ".", "0", ".", "1">>, <<"l", "a", "t", "e", "s", "t">>,
     <<"v", "2", "2", ".", "0", "r", "c", "1">>, <<"v", "1", "7", ".", "5">>}

StripPrefixes == {<<>>, <<"v">>}

InitResolve ==
    /\ sdk = "node"
    /\ platform = "unix"
    /\ Fresh
    /\ \E requestedVersion \in ResolverRequests, availableVersions \in Catalogs,
          stripPrefix \in StripPrefixes :
            probe = [fn |-> "FindBestMatchingVersion",
                     requestedVersion |-> requestedVersion,
                     availableVersions |-> availableVersions,
                     stripPrefix |-> stripPrefix,
                     done |-> FALSE, version |-> NoVersion, found |-> FALSE]

(* the call returns best *)
Resolved(best) ==
    /\ probe' = [probe EXCEPT !.done = TRUE, !.version = best.version, !.found = best.found]
    /\ UNCHANGED commandVars

ResolveCall ==
    /\ ~probe.done
    /\ Resolved(FindBestMatchingVersion(probe.requestedVersion, probe.availableVersions,
                                        probe.stripPrefix))

NextResolve == ResolveCall

SpecResolve == InitResolve /\ [][NextResolve]_vars

(* the steps of the resolver, as conditions on the call p *)

(* lines 85-88 *)
RequestNormalized(p) == Normalize(p.requestedVersion, p.stripPrefix)

(* lines 92-95 *)
CandidateNormalized(p, i) == Normalize(p.availableVersions[i], p.stripPrefix)

(* lines 91-100 return *)
ExactMatch(p) ==
    \E i \in 1..Len(p.availableVersions) : CandidateNormalized(p, i) = RequestNormalized(p)

(* line 110 *)
StartsWithRequestDot(p, i) ==
    HasPrefix(CandidateNormalized(p, i), RequestNormalized(p) \o <<".">>)

(* lines 117-130 return *)
VStrippedMatch(p) ==
    /\ HasPrefix(RequestNormalized(p), <<"v">>)
    /\ \E i \in 1..Len(p.availableVersions) :
            TrimPrefix(CandidateNormalized(p, i), <<"v">>) = TrimPrefix(RequestNormalized(p), <<"v">>)

(* lines 137-144 *)
RequestParsed(p) == ParseVersion(StripV(RequestNormalized(p)))

(* lines 164-174 *)
CandidateParsed(p, i) == ParseVersion(StripV(CandidateNormalized(p, i)))

(* lines 148-151 *)
StableAt(p, i) == IsStable(p.availableVersions[i])

----------------------------------------------------------------------------
(* properties of the resolver *)

(* the resolver called with any catalog, the empty one included, as         *)
(* Install calls it with whatever the provider lists                        *)
InitResolveAny ==
    /\ sdk = "node"
    /\ platform = "unix"
    /\ Fresh
    /\ \E requestedVersion \in ResolverRequests, availableVersions \in Catalogs \cup {<<>>},
          stripPrefix \in StripPrefixes :
            probe = [fn |-> "FindBestMatchingVersion",
                     requestedVersion |-> requestedVersion,
                     availableVersions |-> availableVersions,
                     stripPrefix |-> stripPrefix,
                     done |-> FALSE, version |-> NoVersion, found |-> FALSE]

SpecResolveAny == InitResolveAny /\ [][NextResolve]_vars

C13_ClosestBelow ==
    LET p     == probe
        all   == 1..Len(p.availableVersions)
        Below == {i \in all : /\ ~CandidateParsed(p, i).err
                              /\ CompareVersions(CandidateParsed(p, i).parts,
                                                 RequestParsed(p).parts) <= 0}
    IN  (/\ p.done
         /\ ~RequestParsed(p).err
         /\ ~ExactMatch(p)
         /\ ~(Len(RequestNormalized(p)) <= 2 /\ \E i \in all : StartsWithRequestDot(p, i))
         /\ ~VStrippedMatch(p)
         /\ Below # {}) =>
            /\ p.found
            /\ \E k \in Below :
                    /\ p.version = p.availableVersions[k]
                    /\ \A j \in Below : CompareVersions(CandidateParsed(p, j).parts,
                                                         CandidateParsed(p, k).parts) <= 0

(* C14: for a request of at most two characters after normalisation that    *)
(* equals no normalised candidate, the resolver returns the first candidate *)
(* in list order whose normalised form starts with the request and a dot;   *)
(* "17" among 17.0.2, 16.0.1 gives 17.0.2, and "v16" with prefix v among    *)
(* v16.20.2, v14.21.3 gives v16.20.2                                        *)
C14_ShortTokenPrefix ==
    LET p    == probe
        all  == 1..Len(p.availableVersions)
        hits == {i \in all : StartsWithRequestDot(p, i)}
    IN  /\ (p.done /\ Len(RequestNormalized(p)) <= 2 /\ ~ExactMatch(p) /\ hits # {}) =>
                /\ p.found
                /\ \E k \in hits : /\ p.version = p.availableVersions[k]
                                   /\ \A j \in hits : k <= j
        /\ (/\ p.done
            /\ p.requestedVersion = <<"1", "7">>
            /\ p.availableVersions = <<<<"1", "7", ".", "0", ".", "2">>, <<"1", "6", ".", "0", ".", "1">>>>
            /\ p.stripPrefix = <<>>) => (p.found /\ p.version = <<"1", "7", ".", "0", ".", "2">>)
        /\ (/\ p.done
            /\ p.requestedVersion = <<"v", "1", "6">>
            /\ p.availableVersions = <<<<"v", "1", "6", ".", "2", "0", ".", "2">>, <<"v", "1", "4", ".", "2", "1", ".", "3">>>>
            /\ p.stripPrefix = <<"v">>) => (p.found /\ p.version = <<"v", "1", "6", ".", "2", "0", ".", "2">>)

C14_Witness ==
    /\ probe.done
    /\ probe.requestedVersion = <<"1", "7">>
    /\ probe.availableVersions = <<<<"2", "1", ".", "1">>, <<"1", "7", ".", "0", ".", "2">>>>
    /\ probe.stripPrefix = <<>>
    /\ probe.version = <<"1", "7", ".", "0", ".", "2">>

(* C15: when the request parses, no exact, short-prefix or v-stripped match *)
(* exists and no parsable candidate is at or below the request, the         *)
(* resolver returns the first candidate in list order that is stable, and   *)
(* the first candidate when none is stable                                  *)
C15_BelowAllFallsBackToStable ==
    LET p      == probe
        all    == 1..Len(p.availableVersions)
        Below  == {i \in all : /\ ~CandidateParsed(p, i).err
                               /\ CompareVersions(CandidateParsed(p, i).parts,
                                                  RequestParsed(p).parts) <= 0}
        stable == {i \in all : StableAt(p, i)}
    IN  (/\ p.done
         /\ ~RequestParsed(p).err
         /\ ~ExactMatch(p)
         /\ ~(Len(RequestNormalized(p)) <= 2 /\ \E i \in all : StartsWithRequestDot(p, i))
         /\ ~VStrippedMatch(p)
         /\ Below = {}) =>
            /\ p.found
            /\ IF stable = {} THEN p.version = p.availableVersions[1]
               ELSE \E k \in stable : /\ p.version = p.availableVersions[k]
                                       /\ \A j \in stable : k <= j

(* C16 as stated: a request that does not parse and matches no candidate    *)
(* exactly or by short prefix gets the first stable candidate in list       *)
(* order, and the first candidate when none is stable                       *)
C16_UnparsableIsWildcard_AsStated ==
    LET p      == probe
        all    == 1..Len(p.availableVersions)
        stable == {i \in all : StableAt(p, i)}
    IN  (/\ p.done
         /\ RequestParsed(p).err
         /\ ~ExactMatch(p)
         /\ ~(Len(RequestNormalized(p)) <= 2 /\ \E i \in all : StartsWithRequestDot(p, i))) =>
            /\ p.found
            /\ IF stable = {} THEN p.version = p.availableVersions[1]
               ELSE \E k \in stable : /\ p.version = p.availableVersions[k]
                                       /\ \A j \in stable : k <= j

(* C16, amended: a request that does not parse and matches no candidate     *)
(* exactly, by short prefix, or after a leading v is stripped from both,    *)
(* gets the first stable candidate in list order, and the first candidate   *)
(* when none is stable                                                      *)
C16_UnparsableIsWildcard ==
    LET p      == probe
        all    == 1..Len(p.availableVersions)
        stable == {i \in all : StableAt(p, i)}
    IN  (/\ p.done
         /\ RequestParsed(p).err
         /\ ~ExactMatch(p)
         /\ ~(Len(RequestNormalized(p)) <= 2 /\ \E i \in all : StartsWithRequestDot(p, i))
         /\ ~VStrippedMatch(p)) =>
            /\ p.found
            /\ IF stable = {} THEN p.version = p.availableVersions[1]
               ELSE \E k \in stable : /\ p.version = p.availableVersions[k]
                                       /\ \A j \in stable : k <= j

C16_Witness ==
    /\ probe.done
    /\ probe.requestedVersion = <<"l", "a", "t", "e", "s", "t">>
    /\ Len(probe.availableVersions) = 2
    /\ ~StableAt(probe, 1)
    /\ StableAt(probe, 2)
    /\ probe.version = probe.availableVersions[2]

----------------------------------------------------------------------------
(* the comparator on its own: CompareVersionsStr on three version strings   *)

(* version strings as catalogs and users write them; one does not parse *)
ComparedVersions ==
    {<<"1", ".", "9">>, <<"1", ".", "1", "0">>, <<"1", ".", "5", "x">>,
     <<"1", ".", "9", ".", "0">>, <<"v", "1", ".", "9">>, <<"2">>}

InitCompare ==
    /\ sdk = "node"
    /\ platform = "unix"
    /\ Fresh
    /\ \E a \in ComparedVersions, b \in ComparedVersions, c \in ComparedVersions :
            probe = [fn |-> "CompareVersionsStr", a |-> a, b |-> b, c |-> c, done |-> FALSE,
                     aa |-> 0, ab |-> 0, ba |-> 0, bc |-> 0, ac |-> 0, ca |-> 0]

(* the six calls have returned *)
Compared(aa, ab, ba, bc, ac, ca) ==
    /\ probe' = [probe EXCEPT !.done = TRUE, !.aa = aa, !.ab = ab, !.ba = ba,
                              !.bc = bc, !.ac = ac, !.ca = ca]
    /\ UNCHANGED commandVars

CompareCall ==
    /\ ~probe.done
    /\ Compared(CompareVersionsStr(probe.a, probe.a), CompareVersionsStr(probe.a, probe.b),
                CompareVersionsStr(probe.b, probe.a), CompareVersionsStr(probe.b, probe.c),
                CompareVersionsStr(probe.a, probe.c), CompareVersionsStr(probe.c, probe.a))

NextCompare == CompareCall

SpecCompare == InitCompare /\ [][NextCompare]_vars

(* C17: on strings that parse, the comparison is a total order of the       *)
(* parsed values: a version equals itself, swapping the arguments negates   *)
(* the result, a <= b and b <= c give a <= c, and a is below b exactly when *)
(* a is smaller at the first differing component of the shared length or,   *)
(* with that prefix identical, has fewer components                         *)
C17_CompareIsTotalOrder ==
    LET pa == ParseVersion(probe.a)
        pb == ParseVersion(probe.b)
        pc == ParseVersion(probe.c)
        n  == MinLen(pa.parts, pb.parts)
    IN  (probe.done /\ ~pa.err /\ ~pb.err /\ ~pc.err) =>
            /\ probe.aa = 0
            /\ probe.ab = 0 - probe.ba
            /\ (probe.ab <= 0 /\ probe.bc <= 0) => probe.ac <= 0
            /\ probe.ab = 0 <=> pa.parts = pb.parts
            /\ probe.ab = -1 <=>
                    \/ \E k \in 1..n : /\ pa.parts[k] < pb.parts[k]
                                       /\ \A j \in 1..(k - 1) : pa.parts[j] = pb.parts[j]
                    \/ /\ \A j \in 1..n : pa.parts[j] = pb.parts[j]
                       /\ Len(pa.parts) < Len(pb.parts)

C17_Witness ==
    /\ probe.done
    /\ probe.a = <<"1", ".", "9">>
    /\ probe.b = <<"1", ".", "9", ".", "0">>
    /\ probe.c = <<"1", ".", "1", "0">>
    /\ probe.ab = -1
    /\ probe.bc = -1
    /\ probe.ac = -1

(* C18: over any version strings, parsable or not, swapping the arguments   *)
(* negates the result, a <= b and b <= c give a <= c, and no three strings  *)
(* compare as a < b, b < c and c < a                                        *)
C18_CompareStrIsTotalOrder ==
    probe.done =>
        /\ probe.ab = 0 - probe.ba
        /\ (probe.ab <= 0 /\ probe.bc <= 0) => probe.ac <= 0
        /\ ~(probe.ab < 0 /\ probe.bc < 0 /\ probe.ca < 0)

----------------------------------------------------------------------------
(* the multi-component toolchain: svm dotnet sdk install | remove on        *)
(* Windows, both served by BaseSDK with the .NET provider                   *)

(* number of svm dotnet invocations followed *)
MaxDotNetCommands == 2

InitDotNet ==
    /\ sdk = "dotnet"
    /\ platform = "windows"
    /\ Fresh
    /\ probe = [fn |-> "dotnet", commands |-> 0]

(* one more invocation has run *)
DotNetRan(op, r, version, tried, F) ==
    /\ Recorded(op, r, version, tried, F)
    /\ probe' = [probe EXCEPT !.commands = @ + 1]

(* handleDotNetCommand: SetComponentType, then the action *)
WithComponent(componentType) == [State EXCEPT !.componentType = componentType]

DotNetUseWorlds == UseWorlds("dotnet", platform) \cup {[NoFault EXCEPT !.fault = "mark"]}

(* svm dotnet <component> install <version> *)
(* Install's outcome r, recorded under the version the request resolves to *)
DotNetInstallRan(r, version, F) == DotNetRan("install", r, version, r.tried, F)

DotNetInstallCmd ==
    /\ probe.commands < MaxDotNetCommands
    /\ \E componentType \in ComponentTypes, request \in Requests(sdk), F \in InstallWorlds(sdk) :
            DotNetInstallRan(Install(sdk, WithComponent(componentType), request, F, <<>>, MaxDepth),
                             Resolution[sdk][HandlersAdd(sdk, request)].version, F)

(* svm dotnet <component> use <version> *)
DotNetUseRan(r, F) == DotNetRan("use", r, r.version, r.tried, F)

DotNetUseCmd ==
    /\ probe.commands < MaxDotNetCommands
    /\ \E componentType \in ComponentTypes, request \in Requests(sdk), F \in DotNetUseWorlds :
            DotNetUseRan(DotNetUse(platform, WithComponent(componentType), request, F), F)

(* svm dotnet <component> remove <version> *)
DotNetRemoveCmd ==
    /\ probe.commands < MaxDotNetCommands
    /\ \E componentType \in ComponentTypes, request \in Requests(sdk), F \in RemoveWorlds :
            DotNetRan("remove", RemoveSDKVersion(sdk, WithComponent(componentType), request, F),
                      HandlersAdd(sdk, request), <<>>, F)

NextDotNet == DotNetInstallCmd \/ DotNetUseCmd \/ DotNetRemoveCmd

SpecDotNet == InitDotNet /\ [][NextDotNet]_vars

(* C19: after any sequence of commands, every version record with a         *)
(* non-empty InstallDir names a directory that exists                       *)
C19_RecordedInstallDirExists ==
    \A v \in DOMAIN vc :
        (vc[v].exists /\ vc[v].InstallDir # NoPath) =>
            /\ vc[v].InstallDir = InstallPath(v)
            /\ DirExists(State, v)

(* C22: a successful Remove of the version that is active for the command's *)
(* component leaves that component without a binding and without that       *)
(* version's directory under root/component/version, and leaves the         *)
(* bindings of the other components as they were                            *)
C22_RemoveActiveComponentVersion ==
    (/\ last.op = "remove"
     /\ last.err = ""
     /\ last.pre.components[last.component] = last.version) =>
        /\ components[last.component] = NoVersion
        /\ comp[last.component][last.version].content = "none"
        /\ \A c \in ComponentTypes \ {last.component} : components[c] = last.pre.components[c]

----------------------------------------------------------------------------
(* the cache lookup on its own: GetCachedFile for one version, given the    *)
(* version's record and the files in the cache directory                    *)

(* filepath.Base of the download URLs: archives, and the installers the     *)
(* Python and .NET providers link to on macOS and Windows                   *)
CacheFileNames ==
    {<<"s", "d", "k", ".", "z", "i", "p">>, <<"s", "d", "k", ".", "t", "a", "r", ".", "g", "z">>,
     <<"s", "d", "k", ".", "p", "k", "g">>, <<"s", "d", "k", ".", "m", "s", "i">>}

(* DownloadOrUseCachedFile, line 699: filePath *)
CacheFilePaths == {<<"cache", n>> : n \in CacheFileNames}

CacheRecords(version) ==
    {NoInfo} \cup
    [exists : {TRUE}, InstallDir : {NoPath, InstallPath(version)},
     CacheFilePath : {NoPath} \cup CacheFilePaths]

InitCache ==
    /\ sdk = "dotnet"
    /\ platform = "unix"
    /\ Fresh
    /\ \E version \in Versions(sdk), onDisk \in SUBSET CacheFilePaths :
        \E info \in CacheRecords(version) :
            probe = [fn |-> "GetCachedFile", version |-> version, info |-> info,
                     onDisk |-> onDisk, done |-> FALSE, hit |-> FALSE]

(* the configuration and cache directory the lookup reads *)
CacheState(p) == [State EXCEPT !.vc[p.version] = p.info, !.files = p.onDisk]

(* the lookup returns hit *)
Looked(hit) ==
    /\ probe' = [probe EXCEPT !.done = TRUE, !.hit = hit]
    /\ UNCHANGED commandVars

GetCachedFileCall ==
    /\ ~probe.done
    /\ Looked(GetCachedFile(CacheState(probe), probe.version))

NextCache == GetCachedFileCall

SpecCache == InitCache /\ [][NextCache]_vars

(* C20: the lookup reports a hit exactly when the record holds a cache path *)
(* whose file is on disk and whose name does not end in an installer        *)
(* extension (.pkg, .msi, .exe); a missing file or an installer is a miss   *)
C20_CacheHitNeedsReusableFile ==
    LET path      == probe.info.CacheFilePath
        name      == path[2]
        installer == \/ HasSuffix(name, <<".", "p", "k", "g">>)
                     \/ HasSuffix(name, <<".", "m", "s", "i">>)
                     \/ HasSuffix(name, <<".", "e", "x", "e">>)
    IN  probe.done =>
            (probe.hit <=> /\ probe.info.exists
                           /\ path # NoPath
                           /\ path \in probe.onDisk
                           /\ ~installer)

----------------------------------------------------------------------------
(* two invocations of svm installing the same version at the same time:     *)
(* each loads the configuration when it starts, looks the cache file up,    *)
(* downloads it with utils.DownloadFile when it has none, registers it and  *)
(* extracts it.  Both write the same cache path.  A file is an inode: the   *)
(* chunks written so far, 0 standing for a hole                             *)

Invocations == {1, 2}

(* number of chunks io.Copy writes for one archive *)
MaxChunks == 2

(* the archive as the server sends it *)
WholeArchive == [k \in 1..MaxChunks |-> k]

InitDownload ==
    /\ sdk = "node"
    /\ platform = "unix"
    /\ Fresh
    /\ probe = [fn         |-> "DownloadFile",
                pc         |-> [i \in Invocations |-> "start"],
                cached     |-> [i \in Invocations |-> FALSE],
                fd         |-> [i \in Invocations |-> 0],
                offset     |-> [i \in Invocations |-> 0],
                read       |-> [i \in Invocations |-> <<>>],
                path       |-> 0,
                inodes     |-> [n \in Invocations |-> <<>>],
                created    |-> 0,
                registered |-> FALSE]

DownloadStep(p) ==
    /\ probe' = p
    /\ UNCHANGED commandVars

(* NewBaseSDK: config.LoadConfig reads the configuration file once *)
LoadConfig(i) ==
    /\ probe.pc[i] = "start"
    /\ DownloadStep([probe EXCEPT !.pc[i] = "lookup", !.cached[i] = probe.registered])

(* Install, lines 192-197: GetCachedFile on the loaded configuration *)
LookupCache(i) ==
    /\ probe.pc[i] = "lookup"
    /\ DownloadStep([probe EXCEPT !.pc[i] = IF probe.cached[i] /\ probe.path # 0
                                            THEN "extract" ELSE "create"])

(* DownloadFile, line 334: os.Create opens the path truncated, or makes a   *)
(* new file when there is none                                              *)
CreateFile(i) ==
    /\ probe.pc[i] = "create"
    /\ IF probe.path # 0
       THEN DownloadStep([probe EXCEPT !.pc[i] = "write", !.fd[i] = probe.path, !.offset[i] = 0,
                                       !.inodes[probe.path] = <<>>])
       ELSE DownloadStep([probe EXCEPT !.pc[i] = "write", !.fd[i] = probe.created + 1,
                                       !.offset[i] = 0, !.path = probe.created + 1,
                                       !.created = probe.created + 1,
                                       !.inodes[probe.created + 1] = <<>>])

(* a write of one chunk at an offset: past the end it leaves a hole *)
WriteAt(data, pos, chunk) ==
    IF pos <= Len(data) THEN [data EXCEPT ![pos] = chunk]
    ELSE data \o [k \in 1..(pos - Len(data) - 1) |-> 0] \o <<chunk>>

(* DownloadFile, line 341: io.Copy writes the next chunk at its own offset *)
WriteChunk(i) ==
    /\ probe.pc[i] = "write"
    /\ probe.offset[i] < MaxChunks
    /\ DownloadStep([probe EXCEPT !.offset[i] = @ + 1,
                                  !.inodes[probe.fd[i]] = WriteAt(@, probe.offset[i] + 1,
                                                                  probe.offset[i] + 1)])

(* DownloadFile, lines 342-345: the copy fails and the path is removed *)
CopyFails(i) ==
    /\ probe.pc[i] = "write"
    /\ probe.offset[i] < MaxChunks
    /\ DownloadStep([probe EXCEPT !.pc[i] = "failed", !.path = 0])

(* DownloadOrUseCachedFile, lines 713-716: the copy is complete, the file   *)
(* is registered                                                            *)
SaveCache(i) ==
    /\ probe.pc[i] = "write"
    /\ probe.offset[i] = MaxChunks
    /\ DownloadStep([probe EXCEPT !.pc[i] = "extract", !.registered = TRUE])

(* Install, lines 222-248: the archive at the cache path is read *)
ExtractCached(i) ==
    /\ probe.pc[i] = "extract"
    /\ DownloadStep([probe EXCEPT !.pc[i] = "done",
                                  !.read[i] = IF probe.path = 0 THEN <<>>
                                              ELSE probe.inodes[probe.path]])

NextDownload ==
    \E i \in Invocations :
        \/ LoadConfig(i)
        \/ LookupCache(i)
        \/ CreateFile(i)
        \/ WriteChunk(i)
        \/ CopyFails(i)
        \/ SaveCache(i)
        \/ ExtractCached(i)

SpecDownload == InitDownload /\ [][NextDownload]_vars

(* C23: with two invocations downloading the same version, the registered   *)
(* cache file is the whole archive, no invocation is about to extract while *)
(* the other is writing the file, and what an invocation extracted is the   *)
(* whole archive                                                            *)
C23_ConcurrentDownloadsOnlyDuplicate ==
    /\ probe.registered => (probe.path # 0 /\ probe.inodes[probe.path] = WholeArchive)
    /\ \A i \in Invocations :
            /\ probe.pc[i] = "extract" => \A j \in Invocations \ {i} : probe.pc[j] # "write"
            /\ probe.pc[i] = "done" => probe.read[i] = WholeArchive

----------------------------------------------------------------------------
(* two invocations of `svm <sdk> use` on the same toolchain at the same     *)
(* time, on a Unix system, each for a version that is installed.  Each      *)
(* invocation holds the configuration it loaded when it started and writes  *)
(* the whole of it with every Save; `current` is one link both work on      *)

RemoveLink_KeepsLink(link) == [link |-> link, err |-> ""]

(* os.Remove of the link: an error when there is none *)
RemoveLink(link) ==
    IF link = NoVersion THEN [link |-> link, err |-> "remove"]
    ELSE [link |-> NoVersion, err |-> ""]

(* os.Symlink: an error when the path exists *)
Symlink(link, version) ==
    IF link # NoVersion THEN [link |-> link, err |-> "symlink"]
    ELSE [link |-> version, err |-> ""]

InitConcurrentUse ==
    /\ sdk = "node"
    /\ platform = "unix"
    /\ Fresh
    /\ \E want \in [Invocations -> Versions(sdk)], active \in Versions(sdk) \cup {NoVersion} :
            probe = [fn         |-> "Use",
                     pc         |-> [i \in Invocations |-> "start"],
                     want       |-> want,
                     mem        |-> [i \in Invocations |-> [active |-> NoVersion, env |-> FALSE]],
                     err        |-> [i \in Invocations |-> ""],
                     link       |-> active,
                     disk       |-> [active |-> active, env |-> active # NoVersion],
                     overlapped |-> FALSE]

(* an invocation is between its first and its last step *)
InProgress(i) == probe.pc[i] \notin {"start", "done", "failed"}

(* a step of invocation i: it overlaps when another invocation is under way *)
UseStep(i, p) ==
    /\ probe' = [p EXCEPT !.overlapped = @ \/ \E j \in Invocations \ {i} : InProgress(j)]
    /\ UNCHANGED commandVars

(* NewBaseSDK: config.LoadConfig *)
UseLoadConfig(i) ==
    /\ probe.pc[i] = "start"
    /\ UseStep(i, [probe EXCEPT !.pc[i] = "stat", !.mem[i] = probe.disk])

(* Use, line 344: os.Stat of current *)
UseStatCurrent(i) ==
    /\ probe.pc[i] = "stat"
    /\ UseStep(i, [probe EXCEPT !.pc[i] = IF probe.link # NoVersion THEN "remove" ELSE "symlink"])

(* Use, lines 367-370: os.Remove of current *)
UseRemoveCurrent(i) ==
    /\ probe.pc[i] = "remove"
    /\ LET r == RemoveLink(probe.link)
       IN  UseStep(i, [probe EXCEPT !.pc[i] = IF r.err = "" THEN "symlink" ELSE "failed",
                                    !.err[i] = r.err, !.link = r.link])

(* Use, lines 386-390 and 393-394: os.Symlink, then the branch on the       *)
(* environment entries of the loaded configuration                          *)
UseSymlink(i) ==
    /\ probe.pc[i] = "symlink"
    /\ LET r == Symlink(probe.link, probe.want[i])
       IN  UseStep(i, [probe EXCEPT !.pc[i] = IF r.err # "" THEN "failed"
                                               ELSE IF probe.mem[i].env THEN "setcurrent" ELSE "setup",
                                    !.err[i] = r.err, !.link = r.link])

(* Use, lines 400-403: Config.SetCurrentVersion, which saves *)
UseSetCurrentVersion(i) ==
    /\ probe.pc[i] = "setcurrent"
    /\ LET m == [probe.mem[i] EXCEPT !.active = probe.want[i]]
       IN  UseStep(i, [probe EXCEPT !.pc[i] = "setup", !.mem[i] = m, !.disk = m])

(* SetupEnv, lines 423-425: os.Stat of current *)
UseSetupStat(i) ==
    /\ probe.pc[i] = "setup"
    /\ UseStep(i, [probe EXCEPT !.pc[i] = IF probe.link = NoVersion THEN "failed" ELSE "saveenv",
                                 !.err[i] = IF probe.link = NoVersion THEN "nocurrent" ELSE ""])

(* SetupEnv, lines 434-436: Config.SetSDKEnvVars, which saves *)
UseSaveEnvVars(i) ==
    /\ probe.pc[i] = "saveenv"
    /\ LET m == [probe.mem[i] EXCEPT !.env = TRUE]
       IN  UseStep(i, [probe EXCEPT !.pc[i] = "savecurrent", !.mem[i] = m, !.disk = m])

(* SetupEnv, lines 474-476: Config.SetCurrentVersion, which saves *)
UseSaveCurrentVersion(i) ==
    /\ probe.pc[i] = "savecurrent"
    /\ LET m == [probe.mem[i] EXCEPT !.active = probe.want[i]]
       IN  UseStep(i, [probe EXCEPT !.pc[i] = "done", !.mem[i] = m, !.disk = m])

NextConcurrentUse ==
    \E i \in Invocations :
        \/ UseLoadConfig(i)
        \/ UseStatCurrent(i)
        \/ UseRemoveCurrent(i)
        \/ UseSymlink(i)
        \/ UseSetCurrentVersion(i)
        \/ UseSetupStat(i)
        \/ UseSaveEnvVars(i)
        \/ UseSaveCurrentVersion(i)

SpecConcurrentUse == InitConcurrentUse /\ [][NextConcurrentUse]_vars

(* both invocations have ended *)
BothEnded == \A i \in Invocations : probe.pc[i] \in {"done", "failed"}

(* one invocation failed at link creation *)
FailedAtLink == \E i \in Invocations : probe.err[i] = "symlink"

(* current points at one version while the saved active version names the other *)
LinkAndActiveDiffer ==
    /\ probe.link # NoVersion
    /\ probe.disk.active # NoVersion
    /\ probe.link # probe.disk.active
    /\ {probe.link, probe.disk.active} = {probe.want[i] : i \in Invocations}

(* C24: two Use invocations end with one failed at link creation, or with   *)
(* current on one version and the saved active version on the other, only   *)
(* when their steps interleaved; run one after the other they end with      *)
(* current and the saved active version both on the later request           *)
C24_InterleavedUseCanBreak ==
    BothEnded =>
        /\ (FailedAtLink \/ LinkAndActiveDiffer) => probe.overlapped
        /\ ~probe.overlapped =>
                /\ \A i \in Invocations : probe.err[i] = ""
                /\ probe.link = probe.disk.active
                /\ probe.link \in {probe.want[i] : i \in Invocations}

C24_Witness == BothEnded /\ probe.overlapped /\ LinkAndActiveDiffer /\ \A i \in Invocations : probe.err[i] = ""

----------------------------------------------------------------------------
(* the course of Install, read from the steps the last command passed *)

(* the last command passed the step *)
Passed(step) == \E k \in 1..Len(last.log) : last.log[k] = step

(* the states of a successful attempt, in order *)
InstallOrder ==
    <<"Resolved", "DirPrepared", "ArchiveObtained", "Extracted", "Flattened", "PostInstalled">>

(* the states passed: the calls of the hook left out *)
StatesPassed == SelectSeq(last.log, LAMBDA step : step # "PostInstall")

(* the last n states passed *)
LastStates(n) == SubSeq(StatesPassed, Len(StatesPassed) - n + 1, Len(StatesPassed))

(* C25: when the archive of a candidate was obtained and its extraction     *)
(* fails, or its kind is unsupported, the command returns that error, the   *)
(* candidate is the only one handled, ArchiveObtained is the last state     *)
(* passed and the PostInstall hook is not invoked                           *)
C25_ExtractionFailureIsFinal ==
    (last.fault \in {"extract", "unsupported"} /\ Passed("ArchiveObtained")) =>
        /\ last.err = last.fault
        /\ Len(last.tried) = 1
        /\ last.tried[1].how \in {"cached", "downloaded"}
        /\ last.log = <<"Resolved", "DirPrepared", "ArchiveObtained">>
        /\ ~Passed("PostInstall")

C25_Witness ==
    /\ last.op = "install"
    /\ last.fault = "unsupported"
    /\ last.err = "unsupported"
    /\ Passed("ArchiveObtained")
    /\ Len(GetVersionList(sdk)) > 1

(* C26: a command whose Install succeeded passed, for the candidate that    *)
(* was installed, Resolved, DirPrepared, ArchiveObtained, Extracted,        *)
(* Flattened and PostInstalled in this order, after candidates that got no  *)
(* further than DirPrepared; the hook is invoked only right after Extracted *)
(* and Flattened, and a hook that fails leaves the command failed           *)
C26_InstallOrder ==
    /\ (last.err = "" /\ last.log # <<>>) =>
            /\ Len(StatesPassed) >= Len(InstallOrder)
            /\ LastStates(Len(InstallOrder)) = InstallOrder
            /\ \A k \in 1..(Len(StatesPassed) - Len(InstallOrder)) :
                    StatesPassed[k] \in {"Resolved", "DirPrepared"}
    /\ \A k \in 1..Len(last.log) :
            last.log[k] = "PostInstall" =>
                /\ k > 2
                /\ last.log[k - 2] = "Extracted"
                /\ last.log[k - 1] = "Flattened"
    /\ (Passed("PostInstall") /\ ~Passed("PostInstalled")) => last.err = "postinstall"
    /\ Passed("PostInstalled") => last.fault # "postinstall"

C26_Witness ==
    /\ last.op = "install"
    /\ last.err = ""
    /\ Len(last.tried) > 1
    /\ last.log = <<"Resolved", "DirPrepared", "Resolved", "DirPrepared", "ArchiveObtained",
                    "Extracted", "Flattened", "PostInstall", "PostInstalled">>

----------------------------------------------------------------------------
(* PrepareInstallDir on every record and every state of the version         *)
(* directory: absent, empty, or holding entries of an earlier install       *)

DirContents == {"none", "empty", "full"}

InitPrepare ==
    /\ sdk = "node"
    /\ platform = "unix"
    /\ Fresh
    /\ \E version \in Versions(sdk), dir \in DirContents :
        \E info \in CacheRecords(version) :
            probe = [fn |-> "PrepareInstallDir", version |-> version, info |-> info,
                     dir |-> dir, done |-> FALSE, same |-> FALSE, dirAfter |-> dir,
                     infoAfter |-> info]

(* the configuration and install root the call finds *)
PrepareState(p) == [State EXCEPT !.vc[p.version] = p.info, !.dirs[p.version] = p.dir]

(* the call leaves the state after *)
Prepared(before, after) ==
    /\ probe' = [probe EXCEPT !.done = TRUE,
                              !.same = (after = before),
                              !.dirAfter = after.dirs[probe.version],
                              !.infoAfter = GetVersionInfo(after, probe.version)]
    /\ UNCHANGED commandVars

PrepareInstallDirCall ==
    /\ ~probe.done
    /\ Prepared(PrepareState(probe), PrepareInstallDir(PrepareState(probe), probe.version))

NextPrepare == PrepareInstallDirCall

SpecPrepare == InitPrepare /\ [][NextPrepare]_vars

(* the record names an install directory and the directory is on disk *)
RecordedDirOnDisk == probe.info.exists /\ probe.info.InstallDir # NoPath /\ probe.dir # "none"

(* C27: when the recorded installDir is on disk PrepareInstallDir changes   *)
(* nothing, neither the directory nor the record; otherwise the version     *)
(* directory exists and is empty afterwards and the record names it as      *)
(* installDir with the cacheFilePath it had before                          *)
C27_PrepareReusesOrCreatesEmpty ==
    probe.done =>
        IF RecordedDirOnDisk
        THEN /\ probe.same
             /\ probe.dirAfter = probe.dir
             /\ probe.infoAfter = probe.info
        ELSE /\ probe.dirAfter = "empty"
             /\ probe.infoAfter.exists
             /\ probe.infoAfter.InstallDir = InstallPath(probe.version)
             /\ probe.infoAfter.CacheFilePath = probe.info.CacheFilePath

C27_Witness ==
    /\ probe.done
    /\ probe.info.exists
    /\ probe.info.InstallDir # NoPath
    /\ probe.info.CacheFilePath # NoPath
    /\ probe.dir = "none"
    /\ probe.dirAfter = "empty"
    /\ probe.infoAfter.CacheFilePath = probe.info.CacheFilePath

----------------------------------------------------------------------------
(* the marker file of the active version *)

(* what the file .version inside the target of `current` holds, NoVersion   *)
(* when there is none: dotNetSDK.SetupEnv writes it into the current of the *)
(* component; BaseSDK.Use and BaseSDK.SetupEnv write no file                *)
CurrentMarker(name, componentType) ==
    IF name # "dotnet" THEN NoVersion
    ELSE IF ccur[componentType].kind = "none" THEN NoVersion
    ELSE IF ccur[componentType].kind = "copy" THEN ccur[componentType].mark
    ELSE comp[componentType][ccur[componentType].target].mark

(* C29: after a Use that succeeded, the marker file inside the target of    *)
(* `current` holds the version the Use activated                            *)
C29_MarkerRecordsActiveVersion ==
    (last.op = "use" /\ last.err = "") => CurrentMarker(sdk, last.component) = last.version

----------------------------------------------------------------------------
(* the configuration in memory and the configuration file: every mutating   *)
(* operation of Config changes the value in memory and calls Save, which    *)
(* marshals the whole configuration and writes the file                     *)

(* how many times the outside world lets os.WriteFile fail *)
MaxSaveFailures == 1

InstallRoots == {"home/.svm", "d/svm"}

(* LoadConfig, lines 48-54: the configuration made when there is no file *)
DefaultConfig ==
    [installDir |-> "home/.svm", legacy |-> NoVersion, current |-> NoVersion,
     envVars |-> <<>>, vc |-> [v \in Versions("node") |-> NoInfo]]

(* json.MarshalIndent of the configuration: the keys of the file; a version *)
(* without a record has no entry in version_cache                           *)
Marshal(c) ==
    [install_dir      |-> c.installDir,
     current_versions |-> c.legacy,
     current_version  |-> c.current,
     env_vars         |-> c.envVars,
     version_cache    |-> {[version       |-> v,
                            install_dir   |-> c.vc[v].InstallDir,
                            cache_file_path |-> c.vc[v].CacheFilePath] :
                           v \in {w \in DOMAIN c.vc : c.vc[w].exists}}]

(* the file written whole *)
FileOf(c) == [torn |-> FALSE, json |-> Marshal(c)]

(* a mutation that returns without writing the file *)
Save_WriteBehind(c, disk, writeOK, torn) == [mem |-> c, disk |-> disk, err |-> ""]

(* Config.Save after a mutation that left c in memory: os.WriteFile writes   *)
(* the file or fails, leaving the old file or a torn one                    *)
Save(c, disk, writeOK, torn) ==
    IF writeOK THEN [mem |-> c, disk |-> FileOf(c), err |-> ""]
    ELSE [mem |-> c, disk |-> IF torn THEN [disk EXCEPT !.torn = TRUE] ELSE disk, err |-> "save"]

(* Config.SetInstallDir *)
SetInstallDir(c, dir) == [c EXCEPT !.installDir = dir]

InitConfig ==
    /\ sdk = "node"
    /\ platform = "unix"
    /\ Fresh
    /\ probe = [fn |-> "Config", mem |-> DefaultConfig, disk |-> FileOf(DefaultConfig),
                op |-> "LoadConfig", err |-> "", saved |-> TRUE, failures |-> 0]

(* the outcomes of os.WriteFile the outside world may still produce *)
WriteOutcomes ==
    {[ok |-> TRUE, torn |-> FALSE]}
    \cup (IF probe.failures < MaxSaveFailures
          THEN {[ok |-> FALSE, torn |-> FALSE], [ok |-> FALSE, torn |-> TRUE]}
          ELSE {})

(* a mutating operation has returned r *)
Mutated(op, r, w) ==
    /\ probe' = [probe EXCEPT !.mem = r.mem, !.disk = r.disk, !.op = op, !.err = r.err,
                              !.saved = TRUE,
                              !.failures = IF w.ok THEN @ ELSE @ + 1]
    /\ UNCHANGED commandVars

(* an operation has returned without a change and without a Save *)
Untouched(op) ==
    /\ probe' = [probe EXCEPT !.op = op, !.err = "", !.saved = FALSE]
    /\ UNCHANGED commandVars

SetInstallDirCall ==
    \E dir \in InstallRoots, w \in WriteOutcomes :
        Mutated("SetInstallDir", Save(SetInstallDir(probe.mem, dir), probe.disk, w.ok, w.torn), w)

SetCurrentVersionCall ==
    \E version \in Versions(sdk), w \in WriteOutcomes :
        Mutated("SetCurrentVersion",
                Save(SetCurrentVersion(probe.mem, version), probe.disk, w.ok, w.torn), w)

SetVersionInfoCall ==
    \E version \in Versions(sdk), w \in WriteOutcomes :
        \E info \in [exists : {TRUE}, InstallDir : {NoPath, InstallPath(version)},
                      CacheFilePath : {NoPath, CachePath(version)}] :
            Mutated("SetVersionInfo",
                    Save(SetVersionInfo(probe.mem, version, info), probe.disk, w.ok, w.torn), w)

SetSDKEnvVarsCall ==
    \E w \in WriteOutcomes :
        Mutated("SetSDKEnvVars",
                Save(SetSDKEnvVars(probe.mem, ConfigureEnv(sdk, "full").envVars),
                     probe.disk, w.ok, w.torn), w)

(* RemoveVersionInfo, lines 215-247: nothing to remove, nothing saved *)
RemoveVersionInfoCall ==
    \E version \in Versions(sdk), w \in WriteOutcomes :
        IF ~GetVersionInfo(probe.mem, version).exists
        THEN w.ok /\ Untouched("RemoveVersionInfo")
        ELSE Mutated("RemoveVersionInfo",
                     Save(RemoveVersionInfo(probe.mem, version), probe.disk, w.ok, w.torn), w)

NextConfig ==
    \/ SetInstallDirCall
    \/ SetCurrentVersionCall
    \/ SetVersionInfoCall
    \/ SetSDKEnvVarsCall
    \/ RemoveVersionInfoCall

SpecConfig == InitConfig /\ [][NextConfig]_vars

(* C30: after a mutating operation of Config has returned without error the *)
(* configuration file holds the whole configuration as it is in memory; a   *)
(* RemoveVersionInfo that found no record is not a mutation                 *)
C30_MutationsPersistBeforeReturn ==
    (probe.saved /\ probe.err = "") => probe.disk = FileOf(probe.mem)

C30_Witness ==
    /\ probe.op = "RemoveVersionInfo"
    /\ probe.saved
    /\ probe.err = ""
    /\ probe.failures > 0
    /\ probe.mem # DefaultConfig
    /\ probe.disk = FileOf(probe.mem)

----------------------------------------------------------------------------
(* the commands with a cache directory the user may empty: a file of the    *)
(* cache directory is deleted between two commands                          *)

CacheFileDeleted ==
    /\ \E path \in files : files' = files \ {path}
    /\ UNCHANGED <<sdk, platform, dirs, cur, legacy, current, envVars, vc, comp, ccur,
                   components, last, probe>>

NextCacheLoss == InstallCmd \/ UseCmd \/ RemoveCmd \/ CacheFileDeleted

InitCacheLoss ==
    /\ sdk = "node"
    /\ platform = "unix"
    /\ Fresh
    /\ probe = NoProbe

SpecCacheLoss == InitCacheLoss /\ [][NextCacheLoss]_vars

(* C31: an Install of a version that was installed before the command, with *)
(* its directory on disk and recorded, whose download fails, leaves the     *)
(* directory, the record and the active version as they were                *)
C31_FallbackSparesInstalledVersion ==
    (/\ last.op = "install"
     /\ last.pre.dir = "full"
     /\ last.pre.info.exists
     /\ last.pre.info.InstallDir # NoPath
     /\ last.tried # <<>>
     /\ last.tried[1] = [version |-> last.version, how |-> "failed"]) =>
        /\ dirs[last.version] = "full"
        /\ GetVersionInfo(State, last.version) = last.pre.info
        /\ last.pre.current = last.version => GetCurrentVersion(State) = last.version

----------------------------------------------------------------------------
(* the archive kind Install extracts with, for every provider and operating *)
(* system: the file GetDownloadURL names, the kind the provider declares    *)
(* and the extraction primitive Install dispatches to                       *)

InitArchive ==
    /\ sdk = "node"
    /\ platform = "unix"
    /\ Fresh
    /\ \E name \in Providers, osName \in OSNames, arch \in ArchNames :
        \E ext \in DownloadExtensions(name, osName) :
            probe = [fn |-> "GetArchiveType", name |-> name, os |-> osName,
                     file |-> DownloadFileName(arch, ext),
                     done |-> FALSE, primitive |-> "none"]

(* Install has chosen the primitive *)
Dispatched(primitive) ==
    /\ probe' = [probe EXCEPT !.done = TRUE, !.primitive = primitive]
    /\ UNCHANGED commandVars

DispatchCall ==
    /\ ~probe.done
    /\ Dispatched(ExtractPrimitive(ArchiveTypeOf(probe.name, probe.file)))

NextArchive == DispatchCall

SpecArchive == InitArchive /\ [][NextArchive]_vars

(* C33: whenever the file GetDownloadURL names is a zip or a tar.gz archive, *)
(* the primitive Install extracts it with reads that format                 *)
C33_ExtractsWithFormatOfDownload ==
    (probe.done /\ FormatOfFile(probe.file) \in {"zip", "tar.gz"}) =>
        FormatRead(probe.primitive) = FormatOfFile(probe.file)

----------------------------------------------------------------------------
(* how Install and Use choose a version: BaseSDK.Install hands the request  *)
(* to FindBestVersion, BaseSDK.Use hands it to getLatestMatchingVersion,    *)
(* both after VersionHandlers.Add and both against what b.List() answers    *)

(* what a user types, besides Requests: partial versions that are the raw   *)
(* prefix of an older release                                               *)
ChoiceRequests(name) ==
    Requests(name) \cup {<<"1", ".", "1">>, <<"1", "4">>, <<"1", "7", ".", "5">>, <<"3", ".", "9">>}

(* what b.List() may answer: the newest n releases, for every n *)
ChoiceCatalogs(name) == {Take(Releases(name), n) : n \in 0..Len(Releases(name))}

InitChoice ==
    /\ sdk \in Toolchains
    /\ platform = "unix"
    /\ Fresh
    /\ \E version \in ChoiceRequests(sdk), availableVersions \in ChoiceCatalogs(sdk) :
            probe = [fn |-> "choice",
                     version |-> HandlersAdd(sdk, version),
                     availableVersions |-> availableVersions,
                     installDone |-> FALSE, stripPrefix |-> <<>>,
                     targetVersion |-> NoVersion, found |-> FALSE,
                     useDone |-> FALSE, fullVersion |-> NoVersion, err |-> ""]

(* Install, lines 165-184: the resolution step *)
InstallChoice ==
    /\ ~probe.installDone
    /\ LET best == FindBestVersion(sdk, probe.version, probe.availableVersions)
       IN  probe' = [probe EXCEPT !.installDone = TRUE,
                                  !.stripPrefix = StripPrefixOf(sdk, HandlersAdd(sdk, probe.version)),
                                  !.targetVersion = best.version,
                                  !.found = best.found]
    /\ UNCHANGED commandVars

(* Use, lines 316-326: the resolution step for a version not yet installed *)
UseChoice ==
    /\ ~probe.useDone
    /\ LET latest == getLatestMatchingVersion(sdk, probe.version, probe.availableVersions)
       IN  probe' = [probe EXCEPT !.useDone = TRUE,
                                  !.fullVersion = latest.version,
                                  !.err = latest.err]
    /\ UNCHANGED commandVars

NextChoice == InstallChoice \/ UseChoice

SpecChoice == InitChoice /\ [][NextChoice]_vars

(* the prefix the comment of line 500 states: "v" for Node.js, else none *)
StatedStripPrefix(name) == IF name = "node" THEN <<"v">> ELSE <<>>

(* C34: FindBestVersion hands the resolver the strip prefix "v" for Node.js *)
(* and the empty prefix for every other toolchain, so the version it        *)
(* returns is the one the resolver finds for the whole request (a Go        *)
(* request 1.20 is resolved as 1.20, not as .20)                            *)
C34_StripPrefixByToolchain ==
    (probe.fn = "choice" /\ probe.installDone) =>
        /\ probe.stripPrefix = StatedStripPrefix(sdk)
        /\ probe.targetVersion =
              FindBestMatchingVersion(probe.version, SortVersionsDesc(probe.availableVersions),
                                      StatedStripPrefix(sdk)).version

(* C35: for the same request and the same catalog Use selects the version   *)
(* Install would select: getLatestMatchingVersion answers what              *)
(* FindBestVersion answers, and fails exactly when it finds nothing         *)
C35_UseSelectsWhatInstallSelects ==
    (probe.fn = "choice" /\ probe.installDone /\ probe.useDone) =>
        /\ probe.fullVersion = probe.targetVersion
        /\ (probe.err # "") = ~probe.found

----------------------------------------------------------------------------
(* two invocations of svm on different toolchains and the one configuration *)
(* file: each process reads the file once, in NewBaseSDK, and every         *)
(* mutation of its Config writes the whole of its own copy                  *)

SharedTools == {"node", "python"}

(* the entry SDKs[name] of a configuration without a record of name *)
NoSDKConfig(name) ==
    [legacy |-> NoVersion, current |-> NoVersion, envVars |-> <<>>,
     vc |-> [v \in Versions(name) |-> NoInfo]]

(* LoadConfig when the file does not exist yet *)
EmptyConfig == [name \in SharedTools |-> NoSDKConfig(name)]

InitShared ==
    /\ sdk = "node"
    /\ platform = "unix"
    /\ Fresh
    /\ probe = [fn |-> "shared",
                disk |-> EmptyConfig,
                mem |-> [name \in SharedTools |-> EmptyConfig],
                pc |-> [name \in SharedTools |-> "exited"],
                version |-> [name \in SharedTools |-> NoVersion]]

(* the process of toolchain name has made its copy c and written it *)
Saved(name, c, pc) ==
    /\ probe' = [probe EXCEPT !.mem[name] = c, !.disk = c, !.pc[name] = pc]
    /\ UNCHANGED commandVars

(* `svm <name> use <version>` starts: NewBaseSDK calls LoadConfig *)
SharedLoadConfig(name) ==
    /\ probe.pc[name] = "exited"
    /\ \E version \in Versions(name) :
            probe' = [probe EXCEPT !.mem[name] = probe.disk, !.pc[name] = "loaded",
                                   !.version[name] = version]
    /\ UNCHANGED commandVars

(* Install records the version: SetVersionInfo and its Save *)
SharedSetVersionInfo(name) ==
    /\ probe.pc[name] = "loaded"
    /\ LET version == probe.version[name]
           info    == [exists |-> TRUE, InstallDir |-> InstallPath(version),
                       CacheFilePath |-> CachePath(version)]
       IN  Saved(name,
                 [probe.mem[name] EXCEPT ![name] = SetVersionInfo(@, version, info)],
                 "installed")

(* Use binds the version: SetCurrentVersion and its Save *)
SharedSetCurrentVersion(name) ==
    /\ probe.pc[name] = "installed"
    /\ Saved(name,
             [probe.mem[name] EXCEPT ![name] = SetCurrentVersion(@, probe.version[name])],
             "bound")

(* the process ends *)
SharedExit(name) ==
    /\ probe.pc[name] = "bound"
    /\ probe' = [probe EXCEPT !.pc[name] = "exited"]
    /\ UNCHANGED commandVars

NextShared ==
    \E name \in SharedTools :
        \/ SharedLoadConfig(name)
        \/ SharedSetVersionInfo(name)
        \/ SharedSetCurrentVersion(name)
        \/ SharedExit(name)

SpecShared == InitShared /\ [][NextShared]_vars

(* C37: invocations on different toolchains do not interfere through the    *)
(* configuration file: what a process has saved for its own toolchain is    *)
(* what the file holds for that toolchain, whatever a process of another    *)
(* toolchain does meanwhile                                                 *)
C37_NoLostUpdate ==
    probe.fn = "shared" =>
        \A name \in SharedTools :
            probe.pc[name] \in {"installed", "bound"} =>
                probe.disk[name] = probe.mem[name][name]

----------------------------------------------------------------------------
(* the PATH filter on its own: SetupEnv splits the EXCLUDE_KEYWORDS entry   *)
(* at the commas and SetEnv rebuilds PATH from the segments it finds        *)

(* values of the EXCLUDE_KEYWORDS entry: a keyword, the keyword in capitals, *)
(* the keyword with a trailing comma, and the empty value                   *)
ExcludeValues ==
    {<<"n", "o", "d", "e">>, <<"N", "O", "D", "E">>, <<"n", "o", "d", "e", ",">>, <<>>}

(* PATH segments: a system directory, two that contain the keyword, the     *)
(* empty segment of a doubled separator                                     *)
FilterSegments ==
    {<<"/", "b", "i", "n">>, <<"/", "o", "p", "t", "/", "n", "o", "d", "e">>,
     <<"/", "N", "o", "d", "e", "/", "b">>, <<>>}

FilterPaths == UNION {[1..n -> FilterSegments] : n \in 0..MaxPathLen}

InitFilter ==
    /\ sdk = "node"
    /\ platform \in Platforms
    /\ Fresh
    /\ \E value \in ExcludeValues, paths \in FilterPaths :
            probe = [fn |-> "filter", value |-> value, paths |-> paths,
                     done |-> FALSE, newPaths |-> <<>>]

(* SetupEnv, lines 449-450 and 462-469, then EnvManager.SetEnv *)
FilterCall ==
    /\ ~probe.done
    /\ LET e == [EnvManagerText(sdk) EXCEPT !.ExcludeKeywords = Split(probe.value, ",")]
       IN  probe' = [probe EXCEPT !.done = TRUE,
                                  !.newPaths = SetEnvPath(platform, e, probe.paths, "")]
    /\ UNCHANGED commandVars

NextFilter == FilterCall

SpecFilter == InitFilter /\ [][NextFilter]_vars

(* a segment the filter has to keep: not empty, and containing none of the  *)
(* non-empty keywords of value, whatever the case of the letters            *)
MustKeep(p, value) ==
    LET keywords == Split(value, ",")
    IN  /\ p # <<>>
        /\ \A i \in 1..Len(keywords) :
                keywords[i] # <<>> => ~Contains(ToLower(p), ToLower(keywords[i]))

====
